---- MODULE Spec2Model ----
(***************************************************************************)
(* Handler resolution and command construction of handlr-regex.            *)
(*                                                                         *)
(* Strings whose characters matter (exec templates, arguments, path        *)
(* strings, regex patterns) are sequences of one-character strings.        *)
(* MIME types are pairs <<type, subtype>>.  Desktop handlers are named by  *)
(* their file name.                                                        *)
(***************************************************************************)
EXTENDS Integers, Sequences, FiniteSets, TLC

VARIABLES
    default_apps,        \* MimeApps.default_apps: Mime -> list of handlers
    added_associations,  \* MimeApps.added_associations
    file,                \* contents of mimeapps.list as written by save()
    system_apps,         \* SystemApps: associations and unassociated
    config,              \* the handlr config: selector, regex handlers, ...
    out                  \* outcome of the last operation

vars == <<default_apps, added_associations, file, system_apps, config, out>>

----------------------------------------------------------------------------
(* Bounds *)

MaxLen == 2        \* longest handler list add_handler builds

----------------------------------------------------------------------------
(* The universe of MIME types and desktop handlers *)

VideoMp4 == <<"video", "mp4">>
VideoWebm == <<"video", "webm">>
VideoAny == <<"video", "*">>
TextPlain == <<"text", "plain">>
TerminalMime == <<"x-scheme-handler", "terminal">>

\* MIME keys in ascending order of their string form
MimeOrder ==
    <<TextPlain, VideoAny, VideoMp4, VideoWebm,
      <<"x-scheme-handler", "https">>, TerminalMime>>

\* keys the mutating commands are applied to
EditMimes == {VideoMp4, VideoAny}

\* keys that get_handler is asked for
QueryMimes == {VideoMp4, VideoWebm, VideoAny, TextPlain}

\* keys listed by the added associations and by the installed applications
CatalogMimes == {VideoMp4, TextPlain}

DesktopHandlers == {"mpv.desktop", "brave.desktop"}

\* lists of the [Added Associations] section of the file that is loaded
AddedLists == {<<"brave.desktop">>, <<"brave.desktop", "mpv.desktop">>}

\* lists by which installed applications declare their MIME types
SystemLists == {<<"mpv.desktop">>, <<"mpv.desktop", "brave.desktop">>}

NoHandler == "none"

\* Config::default: term_exec_args is Some("-e")
DashE == <<"-", "e">>

\* the Name key of each handler's desktop entry
EntryName(h) ==
    CASE h = "mpv.desktop" -> "mpv Media Player"
      [] h = "brave.desktop" -> "Brave"
      [] OTHER -> h

\* what the selector process can print: nothing, or one line
SelectorOutputs == {"", "mpv Media Player", "Brave"}

Maps(keys, lists) == UNION {[S -> lists] : S \in SUBSET keys}

EmptyMap == [m \in {} |-> <<>>]

----------------------------------------------------------------------------
(* MimeApps::save *)

RECURSIVE SortedLines(_, _)
SortedLines(map, i) ==
    IF i > Len(MimeOrder) THEN <<>>
    ELSE IF MimeOrder[i] \in DOMAIN map
         THEN <<[mime |-> MimeOrder[i], handlers |-> map[MimeOrder[i]]]>>
                  \o SortedLines(map, i + 1)
         ELSE SortedLines(map, i + 1)

Save(added, defaults) ==
    [added |-> SortedLines(added, 1), defaults |-> SortedLines(defaults, 1)]

----------------------------------------------------------------------------
(* Resolution *)

Wildcard(mime) == <<mime[1], "*">>

Outcome(kind, handler, asked) ==
    [kind |-> kind, handler |-> handler, asked |-> asked]

\* position of the first handler of hs whose entry name is name, 0 if none
FindByName(hs, name) ==
    LET hits == {i \in 1..Len(hs) : EntryName(hs[i]) = name}
    IN IF hits = {} THEN 0
       ELSE CHOOSE i \in hits : \A j \in hits : i <= j

\* variant: the selector is run for every list, also one of a single entry
GetHandlerFromUser_SelectAlways(apps, enable_selector, mime, answer) ==
    IF mime \notin DOMAIN apps
    THEN Outcome("NotFound", NoHandler, FALSE)
    ELSE LET handlers == apps[mime]
         IN IF enable_selector /\ Len(handlers) > 0
            THEN IF answer = ""
                 THEN Outcome("Cancelled", NoHandler, TRUE)
                 ELSE IF FindByName(handlers, answer) = 0
                      THEN Outcome("Panic", NoHandler, TRUE)
                      ELSE Outcome("Ok",
                               handlers[FindByName(handlers, answer)], TRUE)
            ELSE IF handlers = <<>>
                 THEN Outcome("Panic", NoHandler, FALSE)
                 ELSE Outcome("Ok", Head(handlers), FALSE)

\* MimeApps::get_handler_from_user with Config::select: an empty answer of
\* the selector is a cancellation
GetHandlerFromUser(apps, enable_selector, mime, answer) ==
    IF mime \notin DOMAIN apps
    THEN Outcome("NotFound", NoHandler, FALSE)
    ELSE LET handlers == apps[mime]
         IN IF enable_selector /\ Len(handlers) > 1
            THEN IF answer = ""
                 THEN Outcome("Cancelled", NoHandler, TRUE)
                 ELSE IF FindByName(handlers, answer) = 0
                      THEN Outcome("Panic", NoHandler, TRUE)
                      ELSE Outcome("Ok",
                               handlers[FindByName(handlers, answer)], TRUE)
            ELSE IF handlers = <<>>
                 THEN Outcome("Panic", NoHandler, FALSE)
                 ELSE Outcome("Ok", Head(handlers), FALSE)

SystemGetHandler(system, mime) ==
    IF mime \in DOMAIN system.associations
           /\ system.associations[mime] # <<>>
    THEN Head(system.associations[mime])
    ELSE NoHandler

Resolved(kind, handler, source, asked, system) ==
    [kind |-> kind, handler |-> handler, source |-> source,
     asked |-> asked, system |-> system]

\* variant: the installed applications are asked before the added associations
GetHandlerFromAddedAssociations_SystemFirst(added, system, mime, asked) ==
    IF SystemGetHandler(system, mime) # NoHandler
    THEN Resolved("Ok", SystemGetHandler(system, mime), "system", asked, TRUE)
    ELSE IF mime \in DOMAIN added /\ added[mime] # <<>>
         THEN Resolved("Ok", Head(added[mime]), "added", asked, TRUE)
         ELSE Resolved("NotFound", NoHandler, "none", asked, TRUE)

GetHandlerFromAddedAssociations(added, system, mime, asked) ==
    IF mime \in DOMAIN added
    THEN IF added[mime] = <<>>
         THEN Resolved("NotFound", NoHandler, "none", asked, FALSE)
         ELSE Resolved("Ok", Head(added[mime]), "added", asked, FALSE)
    ELSE IF SystemGetHandler(system, mime) = NoHandler
         THEN Resolved("NotFound", NoHandler, "none", asked, TRUE)
         ELSE Resolved("Ok", SystemGetHandler(system, mime), "system",
                       asked, TRUE)

\* variant: the wildcard key is looked up before the exact key
GetHandler_WildcardFirst(apps, added, system, enable_selector, mime, answer) ==
    LET exact == GetHandlerFromUser(apps, enable_selector, mime, answer)
        wild == GetHandlerFromUser(apps, enable_selector, Wildcard(mime),
                                   answer)
    IN IF wild.kind = "Ok"
       THEN Resolved("Ok", wild.handler, "wildcard",
                     IF wild.asked THEN "wildcard" ELSE "none", FALSE)
       ELSE IF exact.kind = "Ok"
       THEN Resolved("Ok", exact.handler, "default",
                     IF exact.asked THEN "exact" ELSE "none", FALSE)
       ELSE IF exact.kind \in {"Cancelled", "Panic"}
       THEN Resolved(exact.kind, NoHandler, "none",
                     IF exact.asked THEN "exact" ELSE "none", FALSE)
       ELSE GetHandlerFromAddedAssociations(added, system, mime, "none")

\* MimeApps::get_handler.  source names the step that produced the handler,
\* asked the lookup during which the selector was run.
GetHandler(apps, added, system, enable_selector, mime, answer) ==
    LET exact == GetHandlerFromUser(apps, enable_selector, mime, answer)
        wild == GetHandlerFromUser(apps, enable_selector, Wildcard(mime),
                                   answer)
    IN IF exact.kind \in {"Cancelled", "Panic"}
       THEN Resolved(exact.kind, NoHandler, "none",
                     IF exact.asked THEN "exact" ELSE "none", FALSE)
       ELSE IF exact.kind = "Ok"
       THEN Resolved("Ok", exact.handler, "default",
                     IF exact.asked THEN "exact" ELSE "none", FALSE)
       ELSE IF wild.kind = "Ok"
       THEN Resolved("Ok", wild.handler, "wildcard",
                     IF wild.asked THEN "wildcard" ELSE "none", FALSE)
       ELSE IF wild.kind = "Panic"
       THEN Resolved("Panic", NoHandler, "none",
                     IF wild.asked THEN "wildcard" ELSE "none", FALSE)
       ELSE GetHandlerFromAddedAssociations(added, system, mime,
                     IF wild.asked THEN "wildcard" ELSE "none")

----------------------------------------------------------------------------
(* Commands on the registry *)

Put(map, mime, handlers) ==
    [m \in DOMAIN map \cup {mime} |-> IF m = mime THEN handlers ELSE map[m]]

Without(map, mime) == [m \in DOMAIN map \ {mime} |-> map[m]]

RemoveAt(s, pos) == SubSeq(s, 1, pos - 1) \o SubSeq(s, pos + 1, Len(s))

Position(s, x) ==
    LET hits == {i \in 1..Len(s) : s[i] = x}
    IN IF hits = {} THEN 0
       ELSE CHOOSE i \in hits : \A j \in hits : i <= j

ListOf(map, mime) == IF mime \in DOMAIN map THEN map[mime] ELSE <<>>

\* variant: push_front, the added handler becomes the primary one
AddHandler_PushFront(mime, handler) ==
    /\ Len(ListOf(default_apps, mime)) < MaxLen
    /\ default_apps' =
           Put(default_apps, mime, <<handler>> \o ListOf(default_apps, mime))
    /\ file' = Save(added_associations, default_apps')
    /\ out' = [op |-> "add_handler", mime |-> mime, handler |-> handler]
    /\ UNCHANGED <<added_associations, system_apps, config>>

AddHandler(mime, handler) ==
    /\ Len(ListOf(default_apps, mime)) < MaxLen
    /\ default_apps' =
           Put(default_apps, mime, Append(ListOf(default_apps, mime), handler))
    /\ file' = Save(added_associations, default_apps')
    /\ out' = [op |-> "add_handler", mime |-> mime, handler |-> handler]
    /\ UNCHANGED <<added_associations, system_apps, config>>

\* variant: the handler is put in front of the list that is there
SetHandler_KeepOthers(mime, handler) ==
    /\ default_apps' =
           Put(default_apps, mime,
               <<handler>> \o SelectSeq(ListOf(default_apps, mime),
                                        LAMBDA h : h # handler))
    /\ file' = Save(added_associations, default_apps')
    /\ out' = [op |-> "set_handler", mime |-> mime, handler |-> handler]
    /\ UNCHANGED <<added_associations, system_apps, config>>

SetHandler(mime, handler) ==
    /\ default_apps' = Put(default_apps, mime, <<handler>>)
    /\ file' = Save(added_associations, default_apps')
    /\ out' = [op |-> "set_handler", mime |-> mime, handler |-> handler]
    /\ UNCHANGED <<added_associations, system_apps, config>>

\* variant: only the primary handler is taken out of the list
UnsetHandler_PopFront(mime) ==
    /\ default_apps' =
           IF Len(ListOf(default_apps, mime)) > 1
           THEN Put(default_apps, mime, Tail(default_apps[mime]))
           ELSE Without(default_apps, mime)
    /\ file' = IF mime \in DOMAIN default_apps
               THEN Save(added_associations, default_apps')
               ELSE file
    /\ out' = [op |-> "unset_handler", mime |-> mime]
    /\ UNCHANGED <<added_associations, system_apps, config>>

UnsetHandler(mime) ==
    /\ default_apps' = Without(default_apps, mime)
    /\ file' = IF mime \in DOMAIN default_apps
               THEN Save(added_associations, default_apps')
               ELSE file
    /\ out' = [op |-> "unset_handler", mime |-> mime]
    /\ UNCHANGED <<added_associations, system_apps, config>>

RemoveHandler(mime, handler) ==
    LET handler_list == ListOf(default_apps, mime)
        pos == Position(handler_list, handler)
    IN /\ default_apps' =
              Put(default_apps, mime,
                  IF pos = 0 THEN handler_list
                  ELSE RemoveAt(handler_list, pos))
       /\ file' = IF pos = 0 THEN file
                  ELSE Save(added_associations, default_apps')
       /\ out' = [op |-> "remove_handler", mime |-> mime, handler |-> handler]
       /\ UNCHANGED <<added_associations, system_apps, config>>

\* `handlr get`: resolve a MIME type, the selector answering answer if run
ShowHandler(mime, answer) ==
    /\ out' = [op |-> "get_handler", mime |-> mime, answer |-> answer,
               res |-> GetHandler(default_apps, added_associations,
                                  system_apps, config.enable_selector,
                                  mime, answer)]
    /\ UNCHANGED <<default_apps, added_associations, file, system_apps,
                   config>>

----------------------------------------------------------------------------
(* The registry commands and `get`, starting from an empty default section *)

NoOp == [op |-> "start"]

Init ==
    /\ default_apps = EmptyMap
    /\ added_associations \in Maps(CatalogMimes, AddedLists)
    /\ file = Save(added_associations, default_apps)
    /\ system_apps \in
           {[associations |-> a, unassociated |-> <<>>] :
                a \in Maps(CatalogMimes, SystemLists)}
    /\ config \in
           {[enable_selector |-> b, handlers |-> <<>>,
             term_exec_args |-> <<DashE>>, terminal_output |-> FALSE] :
                b \in BOOLEAN}
    /\ out = NoOp

Next ==
    \/ \E mime \in EditMimes, handler \in DesktopHandlers :
           AddHandler(mime, handler)
    \/ \E mime \in EditMimes, handler \in DesktopHandlers :
           SetHandler(mime, handler)
    \/ \E mime \in EditMimes : UnsetHandler(mime)
    \/ \E mime \in EditMimes, handler \in DesktopHandlers :
           RemoveHandler(mime, handler)
    \/ \E mime \in QueryMimes, answer \in SelectorOutputs :
           ShowHandler(mime, answer)

Spec == Init /\ [][Next]_vars

----------------------------------------------------------------------------
(* RegexApps: the regex handlers of the config file *)

\* A pattern is a regular expression made of literal characters and of ".",
\* which stands for any one character; Regex::is_match searches the whole
\* string for a place where the pattern matches.
MatchAt(pattern, text, i) ==
    /\ i + Len(pattern) - 1 <= Len(text)
    /\ \A j \in 1..Len(pattern) :
           pattern[j] = "." \/ pattern[j] = text[i + j - 1]

RegexIsMatch(pattern, text) ==
    \E i \in 1..(Len(text) + 1) : MatchAt(pattern, text, i)

\* RegexHandler::is_match
IsMatch(handler, text) ==
    {k \in 1..Len(handler.regexes) : RegexIsMatch(handler.regexes[k], text)}
        # {}

\* variant: the matching rule declared last is taken
RegexGetHandler_Last(handlers, text) ==
    LET hits == {i \in 1..Len(handlers) : IsMatch(handlers[i], text)}
    IN IF hits = {}
       THEN [kind |-> "NotFound", index |-> 0]
       ELSE [kind |-> "Ok",
             index |-> CHOOSE i \in hits : \A j \in hits : i >= j]

\* RegexApps::get_handler: Iterator::find over the rules in declared order
RegexGetHandler(handlers, text) ==
    LET hits == {i \in 1..Len(handlers) : IsMatch(handlers[i], text)}
    IN IF hits = {}
       THEN [kind |-> "NotFound", index |-> 0]
       ELSE [kind |-> "Ok",
             index |-> CHOOSE i \in hits : \A j \in hits : i <= j]

FreetubeRule ==
    [exec |-> <<"f", "r", "e", "e", "t", "u", "b", "e", " ", "%",
            "u">>, terminal |-> FALSE,
     regexes |-> <<<<"y", "o", "u", "t", "u", "b", "e">>, <<"y", "o", "u",
            "t", "u", ".", "b", "e">>>>]

MpvRule ==
    [exec |-> <<"m", "p", "v", " ", "%",
            "f">>, terminal |-> FALSE, regexes |-> <<<<"m", "p", "4">>>>]

YouRule ==
    [exec |-> <<"y", "t", "-", "d", "l", "p", " ", "%",
            "u">>, terminal |-> TRUE, regexes |-> <<<<"y", "o", "u">>>>]

RegexHandlers == {FreetubeRule, MpvRule, YouRule}

MaxRules == 2      \* most regex handlers in the config file

RuleLists == UNION {[1..n -> RegexHandlers] : n \in 0..MaxRules}

----------------------------------------------------------------------------
(* UserPath *)

HttpsMime == <<"x-scheme-handler", "https">>

YoutubeUrl == [kind |-> "Url", text |-> <<"h", "t", "t", "p", "s", ":",
            "/", "/", "y", "o", "u", "t", "u", ".", "b", "e", "/", "a">>]
WikiUrl == [kind |-> "Url", text |-> <<"h", "t", "t", "p", "s", ":", "/",
            "/", "w", "i", "k", "i", ".", "o", "r", "g", "/">>]
Mp4File == [kind |-> "File", text |-> <<"a", ".", "m", "p", "4">>]
YoutuMp4File == [kind |-> "File", text |-> <<"y", "o", "u", "t", "u", ".",
            "m", "p", "4">>]
NoExtFile == [kind |-> "File", text |-> <<"m", "k">>]

UserPaths == {YoutubeUrl, WikiUrl, Mp4File, YoutuMp4File, NoExtFile}

\* UserPath's Display
PathToString(path) == path.text

\* UserPath::get_mime: the scheme handler MIME of a URL, the MIME of a file's
\* extension or content, "AmbiguousExtension" when a file has neither
GetMime(path) ==
    CASE path.kind = "Url" -> HttpsMime
      [] path \in {Mp4File, YoutuMp4File} -> VideoMp4
      [] OTHER -> "AmbiguousExtension"

DesktopH(name) == [tag |-> "DesktopHandler", name |-> name]
RegexH(handler) == [tag |-> "RegexHandler", handler |-> handler]

PathOutcome(kind, handler, regex, classified, res) ==
    [kind |-> kind, handler |-> handler, regex |-> regex,
     classified |-> classified, res |-> res]

NotResolved == [kind |-> "none"]

\* variant: the MIME type is resolved first, the regex handlers are a fallback
GetHandlerFromPath_MimeFirst(rules, apps, added, system, selector, path, answer) ==
    LET regex == RegexGetHandler(rules, PathToString(path))
        mime == GetMime(path)
        res == GetHandler(apps, added, system, selector, mime, answer)
    IN IF mime # "AmbiguousExtension" /\ res.kind = "Ok"
       THEN PathOutcome("Ok", DesktopH(res.handler), regex, TRUE, res)
       ELSE IF regex.kind = "Ok"
       THEN PathOutcome("Ok", RegexH(rules[regex.index]), regex, TRUE,
                        NotResolved)
       ELSE PathOutcome("NotFound", NoHandler, regex, TRUE, NotResolved)

\* get_handler_from_path.  classified tells whether get_mime was called, res
\* is the outcome of get_handler when it was called.
GetHandlerFromPath(rules, apps, added, system, selector, path, answer) ==
    LET regex == RegexGetHandler(rules, PathToString(path))
        mime == GetMime(path)
        res == GetHandler(apps, added, system, selector, mime, answer)
    IN IF regex.kind = "Ok"
       THEN PathOutcome("Ok", RegexH(rules[regex.index]), regex, FALSE,
                        NotResolved)
       ELSE IF mime = "AmbiguousExtension"
       THEN PathOutcome("AmbiguousExtension", NoHandler, regex, TRUE,
                        NotResolved)
       ELSE PathOutcome(res.kind,
                        IF res.kind = "Ok" THEN DesktopH(res.handler)
                        ELSE NoHandler,
                        regex, TRUE, res)

\* resolve one path, the selector answering answer if it is run
ResolvePath(path, answer) ==
    /\ out' = [op |-> "get_handler_from_path", path |-> path,
               answer |-> answer,
               res |-> GetHandlerFromPath(config.handlers, default_apps,
                           added_associations, system_apps,
                           config.enable_selector, path, answer)]
    /\ UNCHANGED <<default_apps, added_associations, file, system_apps,
                   config>>

\* Paths are resolved against a loaded registry and config file
PathDefaults ==
    Maps({HttpsMime, VideoMp4},
         {<<"brave.desktop">>, <<"brave.desktop", "mpv.desktop">>})

InitPath ==
    /\ default_apps \in PathDefaults
    /\ added_associations = EmptyMap
    /\ file = Save(added_associations, default_apps)
    /\ system_apps \in
           {[associations |-> a, unassociated |-> <<>>] :
                a \in Maps({VideoMp4}, SystemLists)}
    /\ config \in
           {[enable_selector |-> b, handlers |-> hs,
             term_exec_args |-> <<DashE>>, terminal_output |-> FALSE] :
                b \in BOOLEAN, hs \in RuleLists}
    /\ out = NoOp

NextPath ==
    \E path \in UserPaths, answer \in SelectorOutputs :
        ResolvePath(path, answer)

SpecPath == InitPath /\ [][NextPath]_vars

----------------------------------------------------------------------------
(* Desktop entries *)

NoEntry == [valid |-> FALSE]

Entry(exec, terminal, categories) ==
    [valid |-> TRUE, exec |-> exec, terminal |-> terminal,
     categories |-> categories]

\* DesktopHandler::get_entry: the desktop files that are installed
GetEntry(h) ==
    CASE h = "mpv.desktop" ->
             Entry(<<"m", "p", "v", " ", "%", "U">>, FALSE, {"AudioVideo"})
      [] h = "brave.desktop" ->
             Entry(<<"b", "r", "a", "v", "e", " ", "%", "u">>, FALSE,
                   {"Network"})
      [] h = "alacritty.desktop" ->
             Entry(<<"a", "l", "a", "c", "r", "i", "t", "t", "y">>, FALSE,
                   {"System", "TerminalEmulator"})
      [] h = "foot.desktop" ->
             Entry(<<"f", "o", "o", "t">>, FALSE, {"TerminalEmulator"})
      [] OTHER -> NoEntry

\* DesktopEntry::is_terminal_emulator
IsTerminalEmulator(entry) == "TerminalEmulator" \in entry.categories

\* SystemApps::terminal_emulator
TerminalEmulator(system) ==
    LET hits == {i \in 1..Len(system.unassociated) :
                    /\ GetEntry(system.unassociated[i]).valid
                    /\ IsTerminalEmulator(GetEntry(system.unassociated[i]))}
    IN IF hits = {} THEN NoEntry
       ELSE GetEntry(system.unassociated[
                CHOOSE i \in hits : \A j \in hits : i <= j])

\* the entry of the handler set for x-scheme-handler/terminal, NoEntry when
\* get_handler fails or the handler's desktop file cannot be read
TerminalHandler(apps, added, system, cfg, answer) ==
    LET res == GetHandler(apps, added, system, cfg.enable_selector,
                          TerminalMime, answer)
    IN IF res.kind = "Ok" THEN GetEntry(res.handler) ELSE NoEntry

\* variant: the installed terminal emulators are scanned before the handler
\* set for x-scheme-handler/terminal is looked up
Terminal_ScanFirst(apps, added, system, cfg, answer) ==
    LET res == GetHandler(apps, added, system, cfg.enable_selector,
                          TerminalMime, answer)
        set == IF res.kind = "Ok" THEN GetEntry(res.handler) ELSE NoEntry
        entry == IF TerminalEmulator(system).valid
                 THEN TerminalEmulator(system) ELSE set
    IN IF res.kind = "Panic" THEN [kind |-> "Panic"]
       ELSE IF ~entry.valid THEN [kind |-> "NoTerminal"]
       ELSE [kind |-> "Ok",
             cmd |-> IF cfg.term_exec_args # <<>>
                     THEN entry.exec \o <<" ">> \o cfg.term_exec_args[1]
                     ELSE entry.exec]

\* Config::terminal
Terminal(apps, added, system, cfg, answer) ==
    LET res == GetHandler(apps, added, system, cfg.enable_selector,
                          TerminalMime, answer)
        set == IF res.kind = "Ok" THEN GetEntry(res.handler) ELSE NoEntry
        entry == IF set.valid THEN set ELSE TerminalEmulator(system)
    IN IF res.kind = "Panic" THEN [kind |-> "Panic"]
       ELSE IF ~entry.valid THEN [kind |-> "NoTerminal"]
       ELSE [kind |-> "Ok",
             cmd |-> IF cfg.term_exec_args # <<>>
                     THEN entry.exec \o <<" ">> \o cfg.term_exec_args[1]
                     ELSE entry.exec]

\* Config::terminal as an operation: it takes &self and returns the command,
\* the registry and mimeapps.list are left as they are.  scanned tells
\* whether SystemApps::terminal_emulator was called.
TerminalCommand(answer) ==
    /\ out' = [op |-> "terminal", answer |-> answer,
               scanned |-> ~TerminalHandler(default_apps, added_associations,
                                system_apps, config, answer).valid,
               res |-> Terminal(default_apps, added_associations,
                                system_apps, config, answer)]
    /\ UNCHANGED <<default_apps, added_associations, file, system_apps,
                   config>>

\* handlers that `handlr set x-scheme-handler/terminal` is given; the desktop
\* file of gone.desktop is not installed
TerminalHandlers == {"alacritty.desktop", "gone.desktop"}

\* lists of mimeapps.list for x-scheme-handler/terminal
TerminalLists ==
    {<<"alacritty.desktop">>, <<"gone.desktop">>,
     <<"foot.desktop", "alacritty.desktop">>}

\* the installed applications that declare no MIME type, in the order in
\* which SystemApps::populate met them
UnassociatedLists ==
    {<<>>, <<"mpv.desktop">>,
     <<"mpv.desktop", "foot.desktop", "alacritty.desktop">>,
     <<"gone.desktop", "alacritty.desktop", "foot.desktop">>}

\* what the selector prints when it is run on a list of terminals
TerminalAnswers == {"", "alacritty.desktop", "foot.desktop"}

InitTerm ==
    /\ default_apps \in Maps({TerminalMime}, TerminalLists)
    /\ added_associations \in Maps({TerminalMime}, {<<"foot.desktop">>})
    /\ file = Save(added_associations, default_apps)
    /\ system_apps \in
           {[associations |-> EmptyMap, unassociated |-> u] :
                u \in UnassociatedLists}
    /\ config \in
           {[enable_selector |-> b, handlers |-> <<>>,
             term_exec_args |-> opts, terminal_output |-> FALSE] :
                b \in BOOLEAN, opts \in {<<>>, <<DashE>>}}
    /\ out = NoOp

NextTerm ==
    \/ \E answer \in TerminalAnswers : TerminalCommand(answer)
    \/ \E handler \in TerminalHandlers : SetHandler(TerminalMime, handler)
    \/ UnsetHandler(TerminalMime)

SpecTerm == InitTerm /\ [][NextTerm]_vars

----------------------------------------------------------------------------
(* DesktopEntry::get_cmd *)

RECURSIVE Join(_, _)
Join(args, sep) ==
    IF args = <<>> THEN <<>>
    ELSE IF Len(args) = 1 THEN args[1]
    ELSE args[1] \o sep \o Join(Tail(args), sep)

WhiteSpace == {" ", "\t", "\n"}

RECURSIVE TrimStart(_)
TrimStart(text) ==
    IF text # <<>> /\ Head(text) \in WhiteSpace
    THEN TrimStart(Tail(text)) ELSE text

RECURSIVE TrimEnd(_)
TrimEnd(text) ==
    IF text # <<>> /\ text[Len(text)] \in WhiteSpace
    THEN TrimEnd(SubSeq(text, 1, Len(text) - 1)) ELSE text

\* str::trim
Trim(text) == TrimEnd(TrimStart(text))

\* the regex %(f|u), case-insensitive, matches at position i of text
SpecialAt(text, i) ==
    /\ i < Len(text)
    /\ text[i] = "%"
    /\ text[i + 1] \in {"f", "F", "u", "U"}

\* special.is_match
SpecialIsMatch(text) == \E i \in 1..Len(text) : SpecialAt(text, i)

Digits == <<"0", "1", "2", "3", "4", "5", "6", "7", "8", "9">>

IsDigit(c) == \E d \in 1..10 : Digits[d] = c

DigitValue(c) == (CHOOSE d \in 1..10 : Digits[d] = c) - 1

Letters ==
    {"a", "b", "c", "d", "e", "f", "g", "h", "i", "j", "k", "l", "m",
     "n", "o", "p", "q", "r", "s", "t", "u", "v", "w", "x", "y", "z",
     "A", "B", "C", "D", "E", "F", "G", "H", "I", "J", "K", "L", "M",
     "N", "O", "P", "Q", "R", "S", "T", "U", "V", "W", "X", "Y", "Z"}

\* the characters of a capture group name in a replacement string
IsCapLetter(c) == c \in Letters \/ IsDigit(c) \/ c = "_"

\* end of the longest group name that starts at position i of rep
RECURSIVE CapEnd(_, _)
CapEnd(rep, i) ==
    IF i <= Len(rep) /\ IsCapLetter(rep[i]) THEN CapEnd(rep, i + 1) ELSE i

RECURSIVE ParseNumber(_, _)
ParseNumber(name, acc) ==
    IF name = <<>> THEN acc
    ELSE ParseNumber(Tail(name), 10 * acc + DigitValue(Head(name)))

\* the text of the group a name refers to: %(f|u) has the groups 0 and 1 and
\* no named group; a group that does not exist expands to nothing
GroupText(name, match) ==
    IF \A k \in 1..Len(name) : IsDigit(name[k])
    THEN CASE ParseNumber(name, 0) = 0 -> match
           [] ParseNumber(name, 0) = 1 -> <<match[2]>>
           [] OTHER -> <<>>
    ELSE <<>>

\* Replacer for String: $$ is a dollar sign, $name a reference to a capture
\* group, any other dollar sign stands for itself.  (The braced form ${name}
\* is left out: no argument of the model contains a brace.)
RECURSIVE Expand(_, _, _)
Expand(rep, i, match) ==
    IF i > Len(rep) THEN <<>>
    ELSE IF rep[i] # "$" THEN <<rep[i]>> \o Expand(rep, i + 1, match)
    ELSE IF i < Len(rep) /\ rep[i + 1] = "$"
    THEN <<"$">> \o Expand(rep, i + 2, match)
    ELSE IF CapEnd(rep, i + 1) = i + 1
    THEN <<"$">> \o Expand(rep, i + 1, match)
    ELSE GroupText(SubSeq(rep, i + 1, CapEnd(rep, i + 1) - 1), match)
             \o Expand(rep, CapEnd(rep, i + 1), match)

\* variant: Regex::replacen(.., 1, ..), only the first match is replaced
RECURSIVE ReplaceAll_FirstOnly(_, _, _)
ReplaceAll_FirstOnly(text, i, rep) ==
    IF i > Len(text) THEN <<>>
    ELSE IF SpecialAt(text, i)
    THEN Expand(rep, 1, <<text[i], text[i + 1]>>)
             \o SubSeq(text, i + 2, Len(text))
    ELSE <<text[i]>> \o ReplaceAll_FirstOnly(text, i + 1, rep)

\* special.replace_all, from position i of text on
RECURSIVE ReplaceAll(_, _, _)
ReplaceAll(text, i, rep) ==
    IF i > Len(text) THEN <<>>
    ELSE IF SpecialAt(text, i)
    THEN Expand(rep, 1, <<text[i], text[i + 1]>>)
             \o ReplaceAll(text, i + 2, rep)
    ELSE <<text[i]>> \o ReplaceAll(text, i + 1, rep)

\* variant: without a placeholder the arguments are appended directly
AssembleExec_NoSpace(exec, args) ==
    IF SpecialIsMatch(exec)
    THEN ReplaceAll(exec, 1, Join(args, <<" ">>))
    ELSE exec \o Join(args, <<" ">>)

\* the exec string of get_cmd before the terminal is put in front
AssembleExec(exec, args) ==
    IF SpecialIsMatch(exec)
    THEN ReplaceAll(exec, 1, Join(args, <<" ">>))
    ELSE exec \o <<" ">> \o Join(args, <<" ">>)

CmdOutcome(kind, cmd, assembled, terminal_called) ==
    [kind |-> kind, cmd |-> cmd, assembled |-> assembled,
     terminal_called |-> terminal_called]

\* variant: the condition of exec_inner, a terminal entry run in a terminal
GetCmd_InTerminal(entry, args, terminal_output, term) ==
    LET exec == AssembleExec(entry.exec, args)
    IN IF entry.terminal /\ terminal_output
       THEN IF term.kind # "Ok"
            THEN CmdOutcome(term.kind, <<>>, exec, TRUE)
            ELSE CmdOutcome("Ok", Trim(term.cmd \o <<" ">> \o exec), exec,
                            TRUE)
       ELSE CmdOutcome("Ok", Trim(exec), exec, FALSE)

\* DesktopEntry::get_cmd.  term is the outcome of Config::terminal, which is
\* called (terminal_called) only for a terminal entry outside a terminal.
GetCmd(entry, args, terminal_output, term) ==
    LET exec == AssembleExec(entry.exec, args)
    IN IF entry.terminal /\ ~terminal_output
       THEN IF term.kind # "Ok"
            THEN CmdOutcome(term.kind, <<>>, exec, TRUE)
            ELSE CmdOutcome("Ok", Trim(term.cmd \o <<" ">> \o exec), exec,
                            TRUE)
       ELSE CmdOutcome("Ok", Trim(exec), exec, FALSE)

MaxArgs == 2       \* most arguments given to a command

ExecTemplates ==
    {<<"v", "l", "c">>, <<"v", "l", "c", " ", "%", "U">>,
     <<"v", "i", "m", " ", "%", "f">>,
     <<"c", "p", " ", "%", "f", " ", "%", "F">>, <<" ", "v", "l", "c", " ">>,
     <<"x", "%", "u", "y", "%", "%", "f">>}

Arguments ==
    {<<"a", ".", "m", "p", "4">>, <<"t", "e", "s", "t">>, <<"$", "1">>,
     <<"$", "$">>, <<"$">>,
     <<"$", "0", "b">>}

ArgLists == UNION {[1..n -> Arguments] : n \in 0..MaxArgs}

CmdInputs ==
    {[op |-> "exec", entry |-> [exec |-> exec, terminal |-> terminal],
      args |-> args] :
         exec \in ExecTemplates, terminal \in BOOLEAN, args \in ArgLists}

\* exec_inner builds the command of its entry for the arguments it is given
BuildCmd ==
    /\ out.op = "exec"
    /\ out' = [op |-> "get_cmd", entry |-> out.entry, args |-> out.args,
               res |-> GetCmd(out.entry, out.args, config.terminal_output,
                              Terminal(default_apps, added_associations,
                                       system_apps, config, ""))]
    /\ UNCHANGED <<default_apps, added_associations, file, system_apps,
                   config>>

\* an entry, loaded from a desktop file or made of a regex handler, is to be
\* run with some arguments
InitCmd ==
    /\ default_apps \in Maps({TerminalMime}, {<<"alacritty.desktop">>})
    /\ added_associations = EmptyMap
    /\ file = Save(added_associations, default_apps)
    /\ system_apps \in
           {[associations |-> EmptyMap, unassociated |-> u] :
                u \in {<<>>, <<"mpv.desktop", "foot.desktop">>}}
    /\ config \in
           {[enable_selector |-> FALSE, handlers |-> <<>>,
             term_exec_args |-> opts, terminal_output |-> b] :
                opts \in {<<>>, <<DashE>>}, b \in BOOLEAN}
    /\ out \in CmdInputs

NextCmd == BuildCmd

SpecCmd == InitCmd /\ [][NextCmd]_vars

----------------------------------------------------------------------------
(* DesktopEntry::exec, Handler::open and Config::open_paths *)

\* str::contains
Contains(text, pattern) ==
    \E i \in 1..(Len(text) - Len(pattern) + 1) :
        SubSeq(text, i, i + Len(pattern) - 1) = pattern

\* supports_multiple of DesktopEntry::exec
SupportsMultiple(exec) ==
    Contains(exec, <<"%", "F">>) \/ Contains(exec, <<"%", "U">>)

\* a log is the sequence of the commands that were given to spawn so far,
\* each with the arguments it carries and with its outcome
LastOk(log) == log = <<>> \/ log[Len(log)].ok

\* exec_inner: one command is built and spawned.  Whether that succeeds is
\* up to the system (get_cmd finds no terminal, the program is missing, the
\* process cannot be created): the call number fail_at of the run fails,
\* none when fail_at is 0.
ExecInner(entry, args, log, fail_at) ==
    Append(log, [exec |-> entry.exec, args |-> args,
                 ok |-> Len(log) + 1 # fail_at])

\* variant: the loop over the arguments goes on after a failed exec_inner
RECURSIVE ExecEach_KeepGoing(_, _, _, _, _)
ExecEach_KeepGoing(entry, arguments, i, log, fail_at) ==
    IF i > Len(arguments) THEN log
    ELSE ExecEach_KeepGoing(entry, arguments, i + 1,
             ExecInner(entry, <<arguments[i]>>, log, fail_at), fail_at)

\* the for loop of DesktopEntry::exec from argument i on: `?` leaves the
\* loop at the first exec_inner that fails
RECURSIVE ExecEach(_, _, _, _, _)
ExecEach(entry, arguments, i, log, fail_at) ==
    IF i > Len(arguments) THEN log
    ELSE LET next == ExecInner(entry, <<arguments[i]>>, log, fail_at)
         IN IF LastOk(next)
            THEN ExecEach(entry, arguments, i + 1, next, fail_at)
            ELSE next

\* variant: supports_multiple is tested with the placeholder regex of get_cmd,
\* which also matches %f and %u
Exec_AnyPlaceholder(entry, mode, arguments, log, fail_at) ==
    IF arguments = <<>>
    THEN ExecInner(entry, <<>>, log, fail_at)
    ELSE IF SpecialIsMatch(entry.exec) \/ mode = "Launch"
    THEN ExecInner(entry, arguments, log, fail_at)
    ELSE ExecEach(entry, arguments, 1, log, fail_at)

\* DesktopEntry::exec, the log extended by the commands it spawns
Exec(entry, mode, arguments, log, fail_at) ==
    IF arguments = <<>>
    THEN ExecInner(entry, <<>>, log, fail_at)
    ELSE IF SupportsMultiple(entry.exec) \/ mode = "Launch"
    THEN ExecInner(entry, arguments, log, fail_at)
    ELSE ExecEach(entry, arguments, 1, log, fail_at)

\* Handleable::get_entry of a Handler: the desktop file of a desktop handler,
\* DesktopEntry::fake_entry of a regex handler
HandlerEntry(handler) ==
    IF handler.tag = "RegexHandler"
    THEN Entry(handler.handler.exec, handler.handler.terminal, {})
    ELSE GetEntry(handler.name)

\* variant: HashMap::insert, a path takes the place of the handler's paths
RECURSIVE AssignFilesToHandlers_Insert(_, _, _, _, _, _, _, _)
AssignFilesToHandlers_Insert(rules, apps, added, system, selector, paths, i, handlers) ==
    IF i > Len(paths) THEN [kind |-> "Ok", handlers |-> handlers]
    ELSE LET res == GetHandlerFromPath(rules, apps, added, system, selector,
                                       paths[i], "")
         IN IF res.kind # "Ok"
            THEN [kind |-> res.kind, handlers |-> EmptyMap]
            ELSE AssignFilesToHandlers_Insert(rules, apps, added, system,
                     selector, paths, i + 1,
                     Put(handlers, res.handler, <<PathToString(paths[i])>>))

\* Config::assign_files_to_handlers from path i on, handlers being the
\* HashMap built so far; the first path that is not resolved ends it
RECURSIVE AssignFilesToHandlers(_, _, _, _, _, _, _, _)
AssignFilesToHandlers(rules, apps, added, system, selector, paths, i, handlers) ==
    IF i > Len(paths) THEN [kind |-> "Ok", handlers |-> handlers]
    ELSE LET res == GetHandlerFromPath(rules, apps, added, system, selector,
                                       paths[i], "")
         IN IF res.kind # "Ok"
            THEN [kind |-> res.kind, handlers |-> EmptyMap]
            ELSE AssignFilesToHandlers(rules, apps, added, system, selector,
                     paths, i + 1,
                     Put(handlers, res.handler,
                         Append(ListOf(handlers, res.handler),
                                PathToString(paths[i]))))

\* the orders in which HashMap::into_iter can yield the keys of handlers: the
\* hasher is seeded at random, every order is possible
Orders(handlers) ==
    {order \in [1..Cardinality(DOMAIN handlers) -> DOMAIN handlers] :
        \A h \in DOMAIN handlers : \E i \in DOMAIN order : order[i] = h}

\* the for loop of Config::open_paths from position i of the iteration on:
\* Handleable::open reads the handler's entry and calls exec in mode Open,
\* `?` leaves the loop at the first handler that fails
RECURSIVE OpenEach(_, _, _, _, _)
OpenEach(handlers, order, i, log, fail_at) ==
    IF i > Len(order) THEN [ok |-> TRUE, log |-> log]
    ELSE IF ~HandlerEntry(order[i]).valid THEN [ok |-> FALSE, log |-> log]
    ELSE LET next == Exec(HandlerEntry(order[i]), "Open",
                          handlers[order[i]], log, fail_at)
         IN IF LastOk(next)
            THEN OpenEach(handlers, order, i + 1, next, fail_at)
            ELSE [ok |-> FALSE, log |-> next]

MaxPaths == 3      \* most paths given to `handlr open`

\* the desktop entries that exec is called on
ExecEntries == {Entry(exec, FALSE, {}) : exec \in ExecTemplates}

\* exec is to be called on an entry
ExecInputs ==
    {[op |-> "run", entry |-> entry, mode |-> mode, args |-> args,
      fail_at |-> k] :
         entry \in ExecEntries, mode \in {"Launch", "Open"},
         args \in ArgLists, k \in 0..MaxArgs}

PathLists == UNION {[1..n -> UserPaths] : n \in 0..MaxPaths}

\* `handlr open` is given some paths
OpenInputs ==
    {[op |-> "open", paths |-> paths, fail_at |-> k] :
         paths \in PathLists, k \in 0..MaxPaths}

\* DesktopEntry::exec as an operation
HandlerExec ==
    /\ out.op = "run"
    /\ out' = [op |-> "ran", entry |-> out.entry, mode |-> out.mode,
               args |-> out.args, fail_at |-> out.fail_at,
               log |-> Exec(out.entry, out.mode, out.args, <<>>,
                            out.fail_at)]
    /\ UNCHANGED <<default_apps, added_associations, file, system_apps,
                   config>>

\* variant: the paths that are resolved are opened although another path
\* is not resolved
OpenPaths_OpenResolved ==
    /\ out.op = "open"
    /\ LET assigned == AssignFilesToHandlers(config.handlers, default_apps,
                           added_associations, system_apps,
                           config.enable_selector, out.paths, 1, EmptyMap)
           resolved ==
               SelectSeq(out.paths,
                         LAMBDA path :
                             GetHandlerFromPath(config.handlers,
                                 default_apps, added_associations,
                                 system_apps, config.enable_selector,
                                 path, "").kind = "Ok")
           partial == AssignFilesToHandlers(config.handlers, default_apps,
                          added_associations, system_apps,
                          config.enable_selector, resolved, 1, EmptyMap)
       IN \E order \in Orders(partial.handlers) :
              out' = [op |-> "open_paths", paths |-> out.paths,
                      fail_at |-> out.fail_at, assigned |-> assigned,
                      order |-> order,
                      run |-> [ok |-> assigned.kind = "Ok"
                                        /\ OpenEach(partial.handlers, order,
                                                    1, <<>>, out.fail_at).ok,
                               log |-> OpenEach(partial.handlers, order, 1,
                                                <<>>, out.fail_at).log]]
    /\ UNCHANGED <<default_apps, added_associations, file, system_apps,
                   config>>

\* Config::open_paths: every path is assigned to its handler, then the
\* handlers are opened in the order in which the HashMap yields them
OpenPaths ==
    /\ out.op = "open"
    /\ LET assigned == AssignFilesToHandlers(config.handlers, default_apps,
                           added_associations, system_apps,
                           config.enable_selector, out.paths, 1, EmptyMap)
       IN \E order \in Orders(assigned.handlers) :
              out' = [op |-> "open_paths", paths |-> out.paths,
                      fail_at |-> out.fail_at, assigned |-> assigned,
                      order |-> order,
                      run |-> IF assigned.kind = "Ok"
                              THEN OpenEach(assigned.handlers, order, 1,
                                            <<>>, out.fail_at)
                              ELSE [ok |-> FALSE, log |-> <<>>]]
    /\ UNCHANGED <<default_apps, added_associations, file, system_apps,
                   config>>

\* the default applications of the registry that paths are opened with
OpenDefaults ==
    {[m \in {HttpsMime, VideoMp4} |->
         IF m = HttpsMime THEN <<"brave.desktop">> ELSE list] :
        list \in {<<"brave.desktop">>, <<"mpv.desktop", "brave.desktop">>}}

\* the regex handlers of the config file that paths are opened with
OpenRules == {<<>>, <<FreetubeRule>>, <<MpvRule, FreetubeRule>>}

InitOpen ==
    /\ default_apps \in OpenDefaults
    /\ added_associations = EmptyMap
    /\ file = Save(added_associations, default_apps)
    /\ system_apps = [associations |-> EmptyMap, unassociated |-> <<>>]
    /\ config \in
           {[enable_selector |-> FALSE, handlers |-> hs,
             term_exec_args |-> <<DashE>>, terminal_output |-> FALSE] :
                hs \in OpenRules}
    /\ out \in ExecInputs \cup OpenInputs

NextOpen ==
    \/ HandlerExec
    \/ OpenPaths

SpecOpen == InitOpen /\ [][NextOpen]_vars

\* `handlr open` with the selector enabled or not, a selector that is run
\* being closed without a choice; video/mp4 has no handler, or two to
\* choose from
InitBatch ==
    /\ default_apps \in
           {[m \in {HttpsMime} |-> <<"brave.desktop">>],
            [m \in {HttpsMime, VideoMp4} |->
                IF m = HttpsMime THEN <<"brave.desktop">>
                ELSE <<"mpv.desktop", "brave.desktop">>]}
    /\ added_associations = EmptyMap
    /\ file = Save(added_associations, default_apps)
    /\ system_apps = [associations |-> EmptyMap, unassociated |-> <<>>]
    /\ config \in
           {[enable_selector |-> b, handlers |-> hs,
             term_exec_args |-> <<DashE>>, terminal_output |-> FALSE] :
                b \in BOOLEAN, hs \in {<<>>, <<FreetubeRule>>}}
    /\ out \in OpenInputs

NextBatch == OpenPaths

SpecBatch == InitBatch /\ [][NextBatch]_vars

----------------------------------------------------------------------------
(* exec_inner and the children it spawns *)

\* variant: the process waits for the child of every terminal entry
Waits_TerminalOnly(entry, cfg) == entry.terminal

\* the test of exec_inner: spawn()?.wait()? is taken, not the detached spawn
Waits(entry, cfg) == entry.terminal /\ cfg.terminal_output

MaxBatch == 3      \* most arguments of one call of exec

\* the calls of exec_inner that exec makes for its arguments, in order
Invocations(entry, mode, arguments) ==
    LET log == Exec(entry, mode, arguments, <<>>, 0)
    IN [i \in 1..Len(log) |-> log[i].args]

\* exec_inner up to the return of spawn: the child runs; with Waits the
\* process goes on to wait for it, otherwise stdout and stderr of the child
\* are Stdio::null() and exec_inner returns
SpawnCommand ==
    /\ out.op = "spawn"
    /\ out.waiting = 0
    /\ out.next <= Len(out.invocations)
    /\ LET wait == Waits(out.entry, config)
           child == [args |-> out.invocations[out.next],
                     stdout |-> IF wait THEN "inherit" ELSE "null",
                     stderr |-> IF wait THEN "inherit" ELSE "null",
                     running |-> TRUE, waited |-> wait]
       IN out' = [out EXCEPT
                     !.children = Append(@, child),
                     !.next = @ + 1,
                     !.waiting = IF wait THEN Len(out.children) + 1 ELSE 0]
    /\ UNCHANGED <<default_apps, added_associations, file, system_apps,
                   config>>

\* child c exits; a wait for it returns
ChildExit(c) ==
    /\ out.op = "spawn"
    /\ c \in 1..Len(out.children)
    /\ out.children[c].running
    /\ out' = [out EXCEPT
                  !.children[c].running = FALSE,
                  !.waiting = IF @ = c THEN 0 ELSE @]
    /\ UNCHANGED <<default_apps, added_associations, file, system_apps,
                   config>>

\* the inputs of exec: an entry with or without a placeholder for a list,
\* terminal or not, and up to MaxBatch arguments
SpawnInputs ==
    {[entry |-> Entry(exec, terminal, {}),
      arguments |-> [i \in 1..n |-> IF i % 2 = 1
                                    THEN <<"a", ".", "m", "p", "4">>
                                    ELSE <<"t", "e", "s", "t">>]] :
         exec \in {<<"v", "i", "m", " ", "%", "f">>,
                   <<"v", "l", "c", " ", "%", "U">>},
         terminal \in BOOLEAN, n \in 0..MaxBatch}

\* exec has been called in mode Open; no call of spawn fails
InitSpawn ==
    /\ default_apps = EmptyMap
    /\ added_associations = EmptyMap
    /\ file = Save(added_associations, default_apps)
    /\ system_apps = [associations |-> EmptyMap, unassociated |-> <<>>]
    /\ config \in
           {[enable_selector |-> FALSE, handlers |-> <<>>,
             term_exec_args |-> <<DashE>>, terminal_output |-> b] :
                b \in BOOLEAN}
    /\ out \in {[op |-> "spawn", entry |-> i.entry,
                 invocations |-> Invocations(i.entry, "Open", i.arguments),
                 next |-> 1, waiting |-> 0, children |-> <<>>] :
                    i \in SpawnInputs}

NextSpawn ==
    \/ SpawnCommand
    \/ \E c \in 1..MaxBatch : ChildExit(c)

SpecSpawn == InitSpawn /\ [][NextSpawn]_vars

----------------------------------------------------------------------------
(* mimeapps.list as text: MimeApps::read and MimeApps::save *)

\* The text of the file is a sequence of lines.  A line is a section header
\* [name] or a property name=value; a value is a sequence of tokens, each a
\* semicolon or a handler name, names being separated by semicolons.
Section(name) == [rule |-> "section", name |-> name]

Property(name, value) == [rule |-> "property", name |-> name, value |-> value]

\* Mime::essence_str
EssenceStr(mime) ==
    CASE mime = TextPlain -> "text/plain"
      [] mime = VideoAny -> "video/*"
      [] mime = VideoMp4 -> "video/mp4"
      [] mime = VideoWebm -> "video/webm"
      [] mime = HttpsMime -> "x-scheme-handler/https"
      [] mime = TerminalMime -> "x-scheme-handler/terminal"

\* the error of Mime::from_str, told apart from every MIME type
BadMimeType == <<"BadMimeType">>

\* Mime::from_str: a string without a slash is not a MIME type
MimeFromStr(name) ==
    CASE name = "text/plain" -> TextPlain
      [] name = "video/*" -> VideoAny
      [] name = "video/mp4" -> VideoMp4
      [] name = "video/webm" -> VideoWebm
      [] name = "x-scheme-handler/https" -> HttpsMime
      [] name = "x-scheme-handler/terminal" -> TerminalMime
      [] OTHER -> BadMimeType

\* str::split(';') from token i of value on, segment being the name read
\* since the last semicolon ("" when there is none)
RECURSIVE Split(_, _, _)
Split(value, i, segment) ==
    IF i > Len(value) THEN <<segment>>
    ELSE IF value[i] = ";"
    THEN <<segment>> \o Split(value, i + 1, "")
    ELSE Split(value, i + 1, value[i])

\* Itertools::unique: the first occurrence of every element, in order
RECURSIVE Unique(_, _)
Unique(list, seen) ==
    IF list = <<>> THEN <<>>
    ELSE IF Head(list) \in seen THEN Unique(Tail(list), seen)
    ELSE <<Head(list)>> \o Unique(Tail(list), seen \cup {Head(list)})

\* DesktopHandler::from_str succeeds for the name of a desktop file that is
\* installed and can be read
IsDesktopHandler(name) == GetEntry(name).valid

\* the handlers that a property line of the file gives
LineHandlers(value) ==
    SelectSeq(Unique(SelectSeq(Split(value, 1, ""), LAMBDA t : t # ""), {}),
              IsDesktopHandler)

Registry(added, defaults) == [added |-> added, defaults |-> defaults]

\* variant: a property line is taken as a default application under every
\* section header that is not [Added Associations]
RECURSIVE ReadLines_AnySection(_, _, _, _)
ReadLines_AnySection(text, i, section, conf) ==
    IF i > Len(text) THEN conf
    ELSE IF text[i].rule = "section"
    THEN ReadLines_AnySection(text, i + 1, text[i].name, conf)
    ELSE LET handlers == LineHandlers(text[i].value)
             mime == MimeFromStr(text[i].name)
         IN IF handlers = <<>> \/ mime = BadMimeType
            THEN ReadLines_AnySection(text, i + 1, section, conf)
            ELSE IF section = "Added Associations"
            THEN ReadLines_AnySection(text, i + 1, section,
                     Registry(Put(conf.added, mime, handlers), conf.defaults))
            ELSE ReadLines_AnySection(text, i + 1, section,
                     Registry(conf.added, Put(conf.defaults, mime, handlers)))

\* the for_each of MimeApps::read from line i on: section is
\* current_section_name, conf the registry built so far
RECURSIVE ReadLines(_, _, _, _)
ReadLines(text, i, section, conf) ==
    IF i > Len(text) THEN conf
    ELSE IF text[i].rule = "section"
    THEN ReadLines(text, i + 1, text[i].name, conf)
    ELSE LET handlers == LineHandlers(text[i].value)
             mime == MimeFromStr(text[i].name)
         IN IF handlers = <<>> \/ mime = BadMimeType
            THEN ReadLines(text, i + 1, section, conf)
            ELSE IF section = "Added Associations"
            THEN ReadLines(text, i + 1, section,
                     Registry(Put(conf.added, mime, handlers), conf.defaults))
            ELSE IF section = "Default Applications"
            THEN ReadLines(text, i + 1, section,
                     Registry(conf.added, Put(conf.defaults, mime, handlers)))
            ELSE ReadLines(text, i + 1, section, conf)

\* MimeApps::read of a file with the given text
Parse(text) == ReadLines(text, 1, "", Registry(EmptyMap, EmptyMap))

\* variant: only the first handler of a list is written
HandlerTokens_OnlyFirst(handlers) ==
    IF handlers = <<>> THEN <<";">>
    ELSE <<Head(handlers), ";">>

\* v.iter().join(";") followed by ";"
RECURSIVE HandlerTokens(_)
HandlerTokens(handlers) ==
    IF handlers = <<>> THEN <<";">>
    ELSE IF Len(handlers) = 1 THEN <<Head(handlers), ";">>
    ELSE <<Head(handlers), ";">> \o HandlerTokens(Tail(handlers))

\* the property lines that save writes for one section
WriteLines(lines) ==
    [i \in 1..Len(lines) |->
        Property(EssenceStr(lines[i].mime), HandlerTokens(lines[i].handlers))]

\* the text that save writes, saved being what Save gives for the registry
\* (the empty line before the second header is not a line of the text)
FileText(saved) ==
    <<Section("Added Associations")>> \o WriteLines(saved.added)
        \o <<Section("Default Applications")>> \o WriteLines(saved.defaults)

MaxLines == 4      \* most lines of a mimeapps.list that is read

\* the lines of the files that are read
FileLines ==
    {Section("Added Associations"), Section("Default Applications"),
     Section("Desktop Entry"),
     Property("video/mp4", <<"mpv.desktop", ";", "brave.desktop", ";">>),
     Property("video/mp4", <<"brave.desktop">>),
     Property("text/plain",
              <<";", "mpv.desktop", ";", ";", "mpv.desktop", ";",
                "gone.desktop", ";">>),
     Property("text/plain", <<"gone.desktop", ";">>),
     Property("inode", <<"mpv.desktop", ";">>)}

\* MimeApps::read as an operation: the registry is built from the file
ReadFile ==
    /\ default_apps' = Parse(file).defaults
    /\ added_associations' = Parse(file).added
    /\ out' = [op |-> "read", text |-> file]
    /\ UNCHANGED <<file, system_apps, config>>

\* MimeApps::save as an operation: the file is truncated and written anew
SaveFile ==
    /\ out.op = "read"
    /\ file' = FileText(Save(added_associations, default_apps))
    /\ out' = [op |-> "save", text |-> out.text]
    /\ UNCHANGED <<default_apps, added_associations, system_apps, config>>

\* a process starts with some mimeapps.list in place; file is its text
InitFile ==
    /\ default_apps = EmptyMap
    /\ added_associations = EmptyMap
    /\ file \in UNION {[1..n -> FileLines] : n \in 0..MaxLines}
    /\ system_apps = [associations |-> EmptyMap, unassociated |-> <<>>]
    /\ config = [enable_selector |-> FALSE, handlers |-> <<>>,
                 term_exec_args |-> <<DashE>>, terminal_output |-> FALSE]
    /\ out = NoOp

NextFile ==
    \/ ReadFile
    \/ SaveFile

SpecFile == InitFile /\ [][NextFile]_vars

----------------------------------------------------------------------------
(* Two invocations that load, change and save mimeapps.list *)

Procs == {1, 2}

\* MimeApps::add_handler on a map
AddTo(apps, mime, handler) ==
    Put(apps, mime, Append(ListOf(apps, mime), handler))

\* MimeApps::set_handler on a map
SetTo(apps, mime, handler) == Put(apps, mime, <<handler>>)

\* the mutating command of an invocation
RaceCommands ==
    [cmd : {"add", "set"}, mime : CatalogMimes, handler : DesktopHandlers]

\* the default applications after the command of an invocation
Mutated(apps, command) ==
    IF command.cmd = "add" THEN AddTo(apps, command.mime, command.handler)
    ELSE SetTo(apps, command.mime, command.handler)

RECURSIVE SumLen(_)
SumLen(tokens) ==
    IF tokens = <<>> THEN 0 ELSE Len(Head(tokens)) + SumLen(Tail(tokens))

\* bytes of the lines of a text from line i on: a header has its brackets
\* and a newline, a property its name, the equals sign, its value and a
\* newline; what a shorter write left of an older text counts as it is
RECURSIVE ByteLen(_, _)
ByteLen(text, i) ==
    IF i > Len(text) THEN 0
    ELSE (CASE text[i].rule = "section" -> Len(text[i].name) + 3
            [] text[i].rule = "property" ->
                   Len(text[i].name) + SumLen(text[i].value) + 2
            [] text[i].rule = "rest" -> text[i].bytes)
         + ByteLen(text, i + 1)

\* write_all and flush on a file opened at offset 0: the bytes replace the
\* leading bytes of what the file holds; what lies behind them stays
Written(content, text) ==
    IF ByteLen(text, 1) >= ByteLen(content, 1) THEN text
    ELSE Append(text, [rule |-> "rest", of |-> content,
                       bytes |-> ByteLen(content, 1) - ByteLen(text, 1)])

\* MimeApps::read by invocation p
Load(p) ==
    /\ out.pc[p] = "start"
    /\ default_apps' = [default_apps EXCEPT ![p] = Parse(file).defaults]
    /\ added_associations' =
           [added_associations EXCEPT ![p] = Parse(file).added]
    /\ out' = [out EXCEPT !.pc[p] = "loaded"]
    /\ UNCHANGED <<file, system_apps, config>>

\* the command of invocation p up to the OpenOptions::open of save, which
\* truncates the file
Truncate(p) ==
    /\ out.pc[p] = "loaded"
    /\ default_apps' =
           [default_apps EXCEPT ![p] = Mutated(@, out.command[p])]
    /\ file' = <<>>
    /\ out' = [out EXCEPT !.pc[p] = "opened"]
    /\ UNCHANGED <<added_associations, system_apps, config>>

\* the writes of save by invocation p, flushed at its end
Write(p) ==
    /\ out.pc[p] = "opened"
    /\ file' = Written(file, FileText(Save(added_associations[p],
                                           default_apps[p])))
    /\ out' = [out EXCEPT !.pc[p] = "saved", !.last = p]
    /\ UNCHANGED <<default_apps, added_associations, system_apps, config>>

\* default_apps[p] and added_associations[p] are the registry in the
\* memory of invocation p; file is the text of the file, at first one that
\* save has written
InitRace ==
    /\ default_apps = [p \in Procs |-> EmptyMap]
    /\ added_associations = [p \in Procs |-> EmptyMap]
    /\ file \in {FileText(Save(EmptyMap, d)) :
                     d \in Maps(CatalogMimes, {<<"brave.desktop">>})}
    /\ system_apps = [associations |-> EmptyMap, unassociated |-> <<>>]
    /\ config = [enable_selector |-> FALSE, handlers |-> <<>>,
                 term_exec_args |-> <<DashE>>, terminal_output |-> FALSE]
    /\ out \in {[op |-> "race", pc |-> [p \in Procs |-> "start"],
                 command |-> c, last |-> 0] : c \in [Procs -> RaceCommands]}

NextRace ==
    \E p \in Procs :
        \/ Load(p)
        \/ Truncate(p)
        \/ Write(p)

SpecRace == InitRace /\ [][NextRace]_vars

----------------------------------------------------------------------------
(* Config::override_selector *)

\* Option<T>: None, or Some of a value
None == <<>>

Some(value) == <<value>>

\* Config::default: the selector command of the default configuration
DefaultSelector == "rofi -dmenu -i -p 'Open With: '"

\* the values of SelectorArgs
SelectorArgs ==
    [selector : {None, Some("fzf"),
                 Some("fuzzel --dmenu --prompt='Open With: '")},
     enable_selector : {None, Some(TRUE), Some(FALSE)}]

\* ConfigFile::override_selector: a supplied field replaces the setting
ConfigFileOverrideSelector(cfg, selector_args) ==
    [cfg EXCEPT
        !.selector = IF selector_args.selector # None
                     THEN selector_args.selector[1] ELSE @,
        !.enable_selector = IF selector_args.enable_selector # None
                            THEN selector_args.enable_selector[1] ELSE @]

\* variant: a field that is not supplied falls back to its default
OverrideSelector_Reset(cfg, selector_args) ==
    [cfg EXCEPT
        !.selector = IF selector_args.selector # None
                     THEN selector_args.selector[1] ELSE DefaultSelector,
        !.enable_selector = IF selector_args.enable_selector # None
                            THEN selector_args.enable_selector[1] ELSE FALSE]

\* Config::override_selector
OverrideSelector(cfg, selector_args) ==
    ConfigFileOverrideSelector(cfg, selector_args)

MaxCalls == 3      \* most calls of override_selector on one Config

\* the configurations a process starts with
SelectorConfigs ==
    {[enable_selector |-> b, handlers |-> <<>>, term_exec_args |-> <<DashE>>,
      terminal_output |-> t, selector |-> DefaultSelector] :
         b \in BOOLEAN, t \in BOOLEAN}

\* one call of override_selector; out keeps the configuration the process
\* started with and the arguments of the calls made so far
OverrideSelectorCall(selector_args) ==
    /\ out.op \in {"start", "override_selector"}
    /\ Len(out.calls) < MaxCalls
    /\ config' = OverrideSelector(config, selector_args)
    /\ out' = [op |-> "override_selector", configured |-> out.configured,
               calls |-> Append(out.calls, selector_args)]
    /\ UNCHANGED <<default_apps, added_associations, file, system_apps>>

InitSelector ==
    /\ default_apps = EmptyMap
    /\ added_associations = EmptyMap
    /\ file = Save(added_associations, default_apps)
    /\ system_apps = [associations |-> EmptyMap, unassociated |-> <<>>]
    /\ config \in SelectorConfigs
    /\ out = [op |-> "start", configured |-> config, calls |-> <<>>]

NextSelector ==
    \E selector_args \in SelectorArgs : OverrideSelectorCall(selector_args)

SpecSelector == InitSelector /\ [][NextSelector]_vars

----------------------------------------------------------------------------
(* The exit status of a process: main and error::handle *)

SUCCESS == 0       \* ExitCode::SUCCESS, main returning Ok(())

FAILURE == 1       \* ExitCode::FAILURE, std::process::exit(1)

\* error::handle: the exit status for the result of a command and where
\* its error is reported
Handle(result) ==
    IF result.kind = "Ok" THEN [code |-> SUCCESS, report |-> "none"]
    ELSE IF result.kind = "Cancelled"
    THEN [code |-> SUCCESS, report |-> "info"]
    ELSE [code |-> FAILURE, report |-> "error"]

\* the closing match of main on the result of the command and
\* config.terminal_output
MainMatch(result, terminal_output) ==
    IF result.kind = "Ok" THEN [code |-> SUCCESS, report |-> "none"]
    ELSE IF result.kind = "Cancelled"
    THEN [code |-> FAILURE, report |-> "none"]
    ELSE IF terminal_output THEN [code |-> FAILURE, report |-> "stderr"]
    ELSE [code |-> FAILURE, report |-> "notify"]

\* the result of Cmd::Get: override_selector, then show_handler
CmdGet(cfg, selector_args, mime, answer) ==
    GetHandler(default_apps, added_associations, system_apps,
               OverrideSelector(cfg, selector_args).enable_selector,
               mime, answer)

\* `handlr get` in main: the process ends by the closing match
MainGet(selector_args, mime, answer) ==
    /\ out.op = "start"
    /\ config' = OverrideSelector(config, selector_args)
    /\ LET res == CmdGet(config, selector_args, mime, answer)
           end == MainMatch(res, config.terminal_output)
       IN out' = [op |-> "exit", by |-> "main", mime |-> mime,
                  answer |-> answer, res |-> res, code |-> end.code,
                  report |-> end.report]
    /\ UNCHANGED <<default_apps, added_associations, file, system_apps>>

\* `handlr get` where the result of the command is given to error::handle
HandleGet(selector_args, mime, answer) ==
    /\ out.op = "start"
    /\ config' = OverrideSelector(config, selector_args)
    /\ LET res == CmdGet(config, selector_args, mime, answer)
           end == Handle(res)
       IN out' = [op |-> "exit", by |-> "handle", mime |-> mime,
                  answer |-> answer, res |-> res, code |-> end.code,
                  report |-> end.report]
    /\ UNCHANGED <<default_apps, added_associations, file, system_apps>>

InitMain ==
    /\ default_apps \in Maps(CatalogMimes, AddedLists)
    /\ added_associations = EmptyMap
    /\ file = Save(added_associations, default_apps)
    /\ system_apps \in
           {[associations |-> a, unassociated |-> <<>>] :
                a \in Maps(CatalogMimes, SystemLists)}
    /\ config \in SelectorConfigs
    /\ out = NoOp

NextMain ==
    \E selector_args \in SelectorArgs, mime \in QueryMimes :
        \E answer \in SelectorOutputs :
            \/ MainGet(selector_args, mime, answer)
            \/ HandleGet(selector_args, mime, answer)

SpecMain == InitMain /\ [][NextMain]_vars

----------------------------------------------------------------------------
(* Properties of resolve(mime) *)

IsGet == out.op = "get_handler"

Has(map, mime) == mime \in DOMAIN map

\* C1: with the selector disabled, a non-empty default_apps list of the exact
\* key wins over a list of the wildcard key type/*: resolve returns the front
\* of the exact list; when only the wildcard key is present resolve returns
\* the front of the wildcard list.
C1_ExactBeatsWildcard ==
    (IsGet /\ ~config.enable_selector) =>
        LET m == out.mime
            w == Wildcard(out.mime)
        IN /\ (Has(default_apps, m) /\ default_apps[m] # <<>>
                   /\ Has(default_apps, w))
                  => /\ out.res.kind = "Ok"
                     /\ out.res.handler = Head(default_apps[m])
                     /\ out.res.source = "default"
           /\ (~Has(default_apps, m) /\ Has(default_apps, w)
                   /\ default_apps[w] # <<>>)
                  => /\ out.res.kind = "Ok"
                     /\ out.res.handler = Head(default_apps[w])
                     /\ out.res.source = "wildcard"

\* the wildcard list is longer than the exact list and has another front
C1_Witness ==
    /\ IsGet /\ ~config.enable_selector
    /\ out.mime = VideoMp4
    /\ Has(default_apps, VideoMp4) /\ Has(default_apps, VideoAny)
    /\ Len(default_apps[VideoMp4]) = 1
    /\ Len(default_apps[VideoAny]) = 2
    /\ Head(default_apps[VideoAny]) # Head(default_apps[VideoMp4])
    /\ out.res.handler = Head(default_apps[VideoMp4])

\* C2: resolve returns an entry of added_associations only when default_apps
\* has neither the exact key nor the wildcard key.
C2_AddedOnlyAfterDefaults ==
    (IsGet /\ out.res.source = "added") =>
        /\ ~Has(default_apps, out.mime)
        /\ ~Has(default_apps, Wildcard(out.mime))

\* C3: with no entry in default_apps (exact or wildcard) and none in
\* added_associations, resolve returns the front of the system list if there
\* is one and NotFound otherwise; the system catalog is not consulted when
\* added_associations has the key.
C3_SystemThenNotFound ==
    IsGet =>
        LET m == out.mime
        IN /\ (~Has(default_apps, m) /\ ~Has(default_apps, Wildcard(m))
                   /\ ~Has(added_associations, m))
                  => IF Has(system_apps.associations, m)
                     THEN /\ out.res.kind = "Ok"
                          /\ out.res.handler = Head(system_apps.associations[m])
                          /\ out.res.source = "system"
                     ELSE out.res.kind = "NotFound"
           /\ Has(added_associations, m) => ~out.res.system

\* nothing but the system catalog has the key, and its list has two entries
C3_Witness ==
    /\ IsGet
    /\ ~Has(default_apps, out.mime) /\ ~Has(default_apps, Wildcard(out.mime))
    /\ ~Has(added_associations, out.mime)
    /\ Has(system_apps.associations, out.mime)
    /\ Len(system_apps.associations[out.mime]) = 2
    /\ out.res.kind = "Ok" /\ out.res.source = "system"
    /\ out.res.system
    /\ out.res.handler = Head(system_apps.associations[out.mime])

\* C4: a selector cancelled during a default_apps lookup, for the exact key or
\* for the wildcard key, makes resolve return Cancelled.
C4_CancelNeverFallsThrough ==
    (IsGet /\ out.res.asked # "none" /\ out.answer = "") =>
        out.res.kind = "Cancelled"

\* C5: a default_apps list of one entry is resolved to that entry with the
\* selector enabled as well as disabled, and the selector is not run.
C5_SingleEntryNoSelector ==
    (IsGet /\ Has(default_apps, out.mime)
         /\ Len(default_apps[out.mime]) = 1) =>
        /\ out.res.kind = "Ok"
        /\ out.res.handler = default_apps[out.mime][1]
        /\ out.res.asked = "none"

C5_Witness ==
    /\ IsGet /\ config.enable_selector
    /\ Has(default_apps, out.mime)
    /\ Len(default_apps[out.mime]) = 1
    /\ Has(default_apps, Wildcard(out.mime))
    /\ Len(default_apps[Wildcard(out.mime)]) = 2
    /\ out.res.kind = "Ok"

----------------------------------------------------------------------------
(* Properties of resolve_path and of the regex handlers *)

IsPath == out.op = "get_handler_from_path"

\* the rules of which at least one pattern matches the text
MatchingRules(handlers, text) ==
    {i \in 1..Len(handlers) :
        \E k \in 1..Len(handlers[i].regexes) :
            RegexIsMatch(handlers[i].regexes[k], text)}

\* C6: when a regex rule matches the path string, resolve_path returns the
\* regex handler of a matching rule whatever the registry and the system
\* catalog hold for the path's MIME type; the path is classified and its MIME
\* type resolved only when no rule matches.
C6_RegexBeforeMime ==
    IsPath =>
        LET matching ==
                MatchingRules(config.handlers, PathToString(out.path))
        IN IF matching # {}
           THEN /\ out.res.kind = "Ok"
                /\ out.res.handler.tag = "RegexHandler"
                /\ \E i \in matching :
                       out.res.handler.handler = config.handlers[i]
                /\ ~out.res.classified
                /\ out.res.res = NotResolved
           ELSE /\ out.res.classified
                /\ out.res.kind = "Ok" =>
                       out.res.handler.tag = "DesktopHandler"

\* a URL that matches a rule while its scheme MIME has a default application
C6_Witness ==
    /\ IsPath
    /\ out.path = YoutubeUrl
    /\ Has(default_apps, GetMime(out.path))
    /\ out.res.kind = "Ok"
    /\ out.res.handler.tag = "RegexHandler"

\* C7: the lookup in the regex handlers returns the matching rule of smallest
\* index, a rule matching iff one of its patterns matches, and fails with
\* NotFound when no rule matches.
C7_FirstMatchingRule ==
    IsPath =>
        LET matching ==
                MatchingRules(config.handlers, PathToString(out.path))
        IN IF matching = {}
           THEN out.res.regex.kind = "NotFound"
           ELSE /\ out.res.regex.kind = "Ok"
                /\ out.res.regex.index \in matching
                /\ \A i \in matching : out.res.regex.index <= i

\* two different rules match, the first of them only by its second pattern
C7_Witness ==
    /\ IsPath
    /\ out.path = YoutubeUrl
    /\ config.handlers = <<FreetubeRule, YouRule>>
    /\ ~RegexIsMatch(FreetubeRule.regexes[1], PathToString(out.path))
    /\ out.res.regex.index = 1
    /\ out.res.handler = RegexH(FreetubeRule)

----------------------------------------------------------------------------
(* Properties of get_command *)

IsCmd == out.op = "get_cmd"

Joined == Join(out.args, <<" ">>)

\* a %f, %F, %u or %U token starts at position i of text
PlaceholderAt(text, i) ==
    /\ i >= 1 /\ i + 1 <= Len(text)
    /\ text[i] = "%"
    /\ text[i + 1] \in {"f", "F", "u", "U"}

HasPlaceholder(text) == \E i \in 1..Len(text) : PlaceholderAt(text, i)

NoDollar(text) == \A i \in 1..Len(text) : text[i] # "$"

\* the first placeholder of text replaced by the text list
SubstituteFirst(text, list) ==
    LET first == CHOOSE i \in 1..Len(text) :
                     /\ PlaceholderAt(text, i)
                     /\ \A j \in 1..(i - 1) : ~PlaceholderAt(text, j)
    IN SubSeq(text, 1, first - 1) \o list \o SubSeq(text, first + 2, Len(text))

\* every placeholder among the first n characters of text replaced by list
RECURSIVE SubstituteEvery(_, _, _)
SubstituteEvery(text, n, list) ==
    IF n = 0 THEN <<>>
    ELSE IF PlaceholderAt(text, n - 1)
    THEN SubstituteEvery(text, n - 2, list) \o list
    ELSE SubstituteEvery(text, n - 1, list) \o <<text[n]>>

\* every placeholder among the first n characters of text replaced by the
\* expansion of list as a regex replacement string
RECURSIVE SubstituteExpanded(_, _, _)
SubstituteExpanded(text, n, list) ==
    IF n = 0 THEN <<>>
    ELSE IF PlaceholderAt(text, n - 1)
    THEN SubstituteExpanded(text, n - 2, list)
             \o Expand(list, 1, <<text[n - 1], text[n]>>)
    ELSE SubstituteExpanded(text, n - 1, list) \o <<text[n]>>

TerminalCmd ==
    Terminal(default_apps, added_associations, system_apps, config, "")

\* C8 as stated: only the first placeholder of the template is replaced by the
\* space-joined arguments, later placeholders stay as they are.
C8_OnlyFirstPlaceholder ==
    (IsCmd /\ HasPlaceholder(out.entry.exec) /\ NoDollar(Joined)) =>
        out.res.assembled = SubstituteFirst(out.entry.exec, Joined)

\* C8 amended: every placeholder of the template, not only the first, is
\* replaced by the space-joined arguments when these contain no dollar sign,
\* and by their expansion as a regex replacement string when they do; the
\* rest of the template is unchanged.
C8_EveryPlaceholder ==
    (IsCmd /\ HasPlaceholder(out.entry.exec)) =>
        /\ out.res.assembled =
               SubstituteExpanded(out.entry.exec, Len(out.entry.exec), Joined)
        /\ NoDollar(Joined) =>
               /\ out.res.assembled =
                      SubstituteEvery(out.entry.exec, Len(out.entry.exec),
                                      Joined)
               /\ ~out.res.terminal_called =>
                      out.res.cmd =
                          Trim(SubstituteEvery(out.entry.exec,
                                               Len(out.entry.exec), Joined))

\* a template with two placeholders
C8_Witness ==
    /\ IsCmd
    /\ out.entry.exec = <<"c", "p", " ", "%", "f", " ", "%", "F">>
    /\ out.args = <<<<"a", ".", "m", "p", "4">>>>
    /\ out.res.kind = "Ok"
    /\ ~out.res.terminal_called
    /\ out.res.cmd = <<"c", "p", " ", "a", ".", "m", "p", "4", " ", "a",
            ".", "m", "p", "4">>

\* C9: for a template without placeholder the command is the template, one
\* space and the space-joined arguments, trimmed (behind the terminal command
\* when the entry is wrapped in a terminal); "vlc" and "vlc %U" both give
\* "vlc a.mp4" for the argument a.mp4, and without arguments the command is
\* the trimmed template.
C9_AppendWithoutPlaceholder ==
    IsCmd =>
        /\ ~HasPlaceholder(out.entry.exec) =>
               /\ out.res.assembled = out.entry.exec \o <<" ">> \o Joined
               /\ ~out.res.terminal_called =>
                      /\ out.res.kind = "Ok"
                      /\ out.res.cmd =
                             Trim(out.entry.exec \o <<" ">> \o Joined)
                      /\ out.args = <<>> =>
                             out.res.cmd = Trim(out.entry.exec)
               /\ (out.res.terminal_called /\ out.res.kind = "Ok") =>
                      out.res.cmd =
                          Trim(TerminalCmd.cmd \o <<" ">> \o out.entry.exec
                                   \o <<" ">> \o Joined)
        /\ (out.entry.exec \in {<<"v", "l", "c">>, <<"v", "l", "c", " ",
                "%", "U">>}
                /\ out.args = <<<<"a", ".", "m", "p", "4">>>>
                /\ ~out.res.terminal_called) =>
               out.res.cmd = <<"v", "l", "c", " ", "a", ".", "m", "p", "4">>

\* a template with surrounding blanks and no placeholder
C9_Witness ==
    /\ IsCmd
    /\ out.entry.exec = <<" ", "v", "l", "c", " ">>
    /\ out.args = <<<<"a", ".", "m", "p", "4">>, <<"t", "e", "s", "t">>>>
    /\ ~out.res.terminal_called
    /\ out.res.cmd = <<"v", "l", "c", " ", " ", "a", ".", "m", "p", "4",
            " ", "t", "e", "s", "t">>

\* C10: the terminal command and one space are put before the assembled exec
\* string iff the entry is marked terminal and the invocation does not run in
\* a terminal; otherwise the terminal is not resolved and the command is the
\* trimmed exec string; "alacritty -e" and "vim test" give
\* "alacritty -e vim test".
C10_TerminalPrefix ==
    IsCmd =>
        LET wrap == out.entry.terminal /\ ~config.terminal_output
        IN /\ out.res.terminal_called <=> wrap
           /\ wrap =>
                  /\ out.res.kind = TerminalCmd.kind
                  /\ out.res.kind = "Ok" =>
                         out.res.cmd =
                             Trim(TerminalCmd.cmd \o <<" ">>
                                      \o out.res.assembled)
           /\ ~wrap =>
                  /\ out.res.kind = "Ok"
                  /\ out.res.cmd = Trim(out.res.assembled)
           /\ (wrap /\ out.res.kind = "Ok"
                   /\ TerminalCmd.cmd = <<"a", "l", "a", "c", "r", "i",
                           "t", "t", "y", " ", "-", "e">>
                   /\ out.res.assembled = <<"v", "i", "m", " ", "t", "e",
                           "s", "t">>) =>
                  out.res.cmd = <<"a", "l", "a", "c", "r", "i", "t", "t",
                          "y", " ", "-", "e", " ", "v", "i", "m", " ",
                                  "t", "e", "s", "t">>

C10_Witness ==
    /\ IsCmd
    /\ out.entry.terminal /\ ~config.terminal_output
    /\ out.res.kind = "Ok"
    /\ out.res.terminal_called
    /\ TerminalCmd.cmd = <<"a", "l", "a", "c", "r", "i", "t", "t", "y",
            " ", "-", "e">>
    /\ out.res.assembled = <<"v", "i", "m", " ", "t", "e", "s", "t">>
    /\ out.res.cmd = <<"a", "l", "a", "c", "r", "i", "t", "t", "y", " ",
            "-", "e", " ", "v", "i", "m", " ", "t", "e", "s", "t">>

----------------------------------------------------------------------------
(* Properties of the terminal command *)

IsTerminal == out.op = "terminal"

\* positions of system_apps.unassociated whose entry is a terminal emulator
TerminalPositions ==
    {i \in 1..Len(system_apps.unassociated) :
        /\ GetEntry(system_apps.unassociated[i]).valid
        /\ "TerminalEmulator"
               \in GetEntry(system_apps.unassociated[i]).categories}

\* the configured terminal exec arguments as they follow the exec string
TerminalSuffix ==
    IF config.term_exec_args = <<>> THEN <<>>
    ELSE <<" ">> \o config.term_exec_args[1]

\* C11: the terminal command is built from the entry that get_handler gives
\* for x-scheme-handler/terminal; only when that gives no entry is it built
\* from the first entry of system_apps.unassociated, in list order, whose
\* categories include TerminalEmulator; when there is none either the outcome
\* is NoTerminal.  The command is the entry's exec followed by the configured
\* terminal exec arguments.
C11_TerminalResolution ==
    IsTerminal =>
        LET res == GetHandler(default_apps, added_associations, system_apps,
                              config.enable_selector, TerminalMime, out.answer)
        IN IF res.kind = "Ok" /\ GetEntry(res.handler).valid
           THEN /\ ~out.scanned
                /\ out.res.kind = "Ok"
                /\ out.res.cmd = GetEntry(res.handler).exec \o TerminalSuffix
           ELSE /\ out.scanned
                /\ IF TerminalPositions = {}
                   THEN out.res.kind = "NoTerminal"
                   ELSE /\ out.res.kind = "Ok"
                        /\ \E i \in TerminalPositions :
                               /\ \A j \in TerminalPositions : i <= j
                               /\ out.res.cmd =
                                      GetEntry(system_apps.unassociated[i]).exec
                                          \o TerminalSuffix

\* no handler is set for x-scheme-handler/terminal, the first unassociated
\* application is not a terminal emulator, the second and the third are
C11_Witness ==
    /\ IsTerminal /\ out.scanned
    /\ ~Has(default_apps, TerminalMime)
    /\ ~Has(added_associations, TerminalMime)
    /\ system_apps.unassociated =
           <<"mpv.desktop", "foot.desktop", "alacritty.desktop">>
    /\ config.term_exec_args = <<DashE>>
    /\ out.res.kind = "Ok"
    /\ out.res.cmd = <<"f", "o", "o", "t", " ", "-", "e">>

\* C12: a terminal resolution that finds the terminal emulator by the scan of
\* the unassociated applications leaves an entry for x-scheme-handler/terminal
\* in added_associations, and the terminal resolution that follows it does not
\* scan again.
C12_GuessIsPersisted ==
    [][/\ (out'.op = "terminal" /\ out'.scanned /\ out'.res.kind = "Ok")
           => Has(added_associations', TerminalMime)
       /\ (IsTerminal /\ out.scanned /\ out.res.kind = "Ok"
               /\ out'.op = "terminal")
           => ~out'.scanned]_vars

----------------------------------------------------------------------------
(* Properties of exec and of the batch open *)

IsRan == out.op = "ran"

IsOpened == out.op = "open_paths"

\* the template has the placeholder %F or the placeholder %U
HasListPlaceholder(exec) ==
    \E i \in 1..(Len(exec) - 1) :
        exec[i] = "%" /\ exec[i + 1] \in {"F", "U"}

AllOk(log) == \A i \in 1..Len(log) : log[i].ok

C14_FirstFailureAborts ==
    IsOpened =>
        /\ \A i \in 1..(Len(out.run.log) - 1) : out.run.log[i].ok
        /\ ~LastOk(out.run.log) => ~out.run.ok
        /\ (out.fail_at >= 1 /\ Len(out.run.log) >= out.fail_at)
               => Len(out.run.log) = out.fail_at

\* the first of two per-argument invocations of a handler fails while another
\* handler has not been run
C14_Witness ==
    /\ IsOpened /\ out.assigned.kind = "Ok"
    /\ Len(out.paths) = 3
    /\ Len(out.order) = 2
    /\ Len(out.assigned.handlers[out.order[1]]) = 2
    /\ ~HasListPlaceholder(HandlerEntry(out.order[1]).exec)
    /\ out.fail_at = 1
    /\ Len(out.run.log) = 1
    /\ ~out.run.ok

\* the handler that a path of the batch is resolved to
ResolvedHandler(path) ==
    GetHandlerFromPath(config.handlers, default_apps, added_associations,
                       system_apps, config.enable_selector, path, "").handler

\* the strings of the paths that are resolved to handler, in their order
RECURSIVE PathsOf(_, _)
PathsOf(paths, handler) ==
    IF paths = <<>> THEN <<>>
    ELSE IF ResolvedHandler(Head(paths)) = handler
    THEN <<PathToString(Head(paths))>> \o PathsOf(Tail(paths), handler)
    ELSE PathsOf(Tail(paths), handler)

\* the lists made of the paths of the batch, as long as the batch
Rearrangements ==
    [1..Len(out.paths) -> {out.paths[i] : i \in 1..Len(out.paths)}]

\* the strings of those of paths that are in the group of handler
Grouped(paths, handler) ==
    LET group == out.assigned.handlers[handler]
        mine == SelectSeq(paths,
                    LAMBDA p : \E k \in 1..Len(group) :
                                   group[k] = PathToString(p))
    IN [k \in 1..Len(mine) |-> PathToString(mine[k])]

\* paths is an interleaving of the per-handler path lists of the batch
SameInterleaved(paths) ==
    \A h \in DOMAIN out.assigned.handlers :
        Grouped(paths, h) = out.assigned.handlers[h]

\* C15: when every path of the batch is resolved, the groups are keyed by
\* exactly the handlers the paths are resolved to, the group of a handler is
\* the list of the paths resolved to it in input order, every occurrence of a
\* path is in one group, and another interleaving of the same per-handler
\* lists is assigned to the same groups.
C15_GroupsByHandler ==
    (IsOpened /\ out.assigned.kind = "Ok") =>
        LET groups == out.assigned.handlers
        IN /\ DOMAIN groups =
                  {ResolvedHandler(out.paths[i]) : i \in 1..Len(out.paths)}
           /\ \A h \in DOMAIN groups : groups[h] = PathsOf(out.paths, h)
           /\ \A h \in DOMAIN groups :
                  Len(groups[h]) =
                      Cardinality({i \in 1..Len(out.paths) :
                                      ResolvedHandler(out.paths[i]) = h})
           /\ \A paths \in Rearrangements :
                  SameInterleaved(paths) =>
                      AssignFilesToHandlers(config.handlers, default_apps,
                          added_associations, system_apps,
                          config.enable_selector, paths, 1, EmptyMap)
                          = out.assigned

\* two paths of one handler with a path of another handler between them
C15_Witness ==
    /\ IsOpened /\ out.assigned.kind = "Ok"
    /\ Len(out.paths) = 3
    /\ out.paths[1] # out.paths[3]
    /\ ResolvedHandler(out.paths[1]) = ResolvedHandler(out.paths[3])
    /\ ResolvedHandler(out.paths[2]) # ResolvedHandler(out.paths[1])
    /\ Cardinality(DOMAIN out.assigned.handlers) = 2
    /\ out.assigned.handlers[ResolvedHandler(out.paths[1])] =
           <<PathToString(out.paths[1]), PathToString(out.paths[3])>>

\* position of the first path of the batch whose handler runs exec
FirstAppearance(exec) ==
    CHOOSE i \in 1..Len(out.paths) :
        /\ HandlerEntry(ResolvedHandler(out.paths[i])).exec = exec
        /\ \A j \in 1..(i - 1) :
               HandlerEntry(ResolvedHandler(out.paths[j])).exec # exec

\* C16: in a batch open the handlers are invoked in the order in which they
\* first appear in the input: of two invocations of different handlers the
\* earlier one is of the handler that appears first.
C16_OrderOfFirstAppearance ==
    (IsOpened /\ out.assigned.kind = "Ok") =>
        \A i, j \in 1..Len(out.run.log) :
            (i < j /\ out.run.log[i].exec # out.run.log[j].exec) =>
                FirstAppearance(out.run.log[i].exec)
                    < FirstAppearance(out.run.log[j].exec)

----------------------------------------------------------------------------
(* Properties of the commands on the registry *)

\* get_handler(mime) called in the state a step leads to
HandlerAfter(selector, mime, answer) ==
    GetHandler(default_apps', added_associations', system_apps', selector,
               mime, answer)

\* the keys of default_apps other than mime hold after a step what they held
OtherKeysKept(mime) ==
    /\ DOMAIN default_apps' \ {mime} = DOMAIN default_apps \ {mime}
    /\ \A m \in DOMAIN default_apps \ {mime} :
           default_apps'[m] = default_apps[m]

\* no step of resolve behind default_apps[mime] has an entry for mime
NothingBehind(mime) ==
    /\ ~Has(default_apps', Wildcard(mime))
    /\ ~Has(added_associations', mime)
    /\ ~Has(system_apps'.associations, mime)

\* C17: add_handler(mime, h) appends h to the list of mime; when there was no
\* list, get_handler(mime) then returns h; when there was one, get_handler(mime)
\* with the selector disabled still returns the handler that was its front.
C17_AddAppends ==
    [][out'.op = "add_handler" =>
          LET mime == out'.mime
              before == ListOf(default_apps, mime)
          IN /\ default_apps'[mime] = Append(before, out'.handler)
             /\ before = <<>> =>
                    \A selector \in BOOLEAN, answer \in SelectorOutputs :
                        /\ HandlerAfter(selector, mime, answer).kind = "Ok"
                        /\ HandlerAfter(selector, mime, answer).handler
                               = out'.handler
             /\ before # <<>> =>
                    /\ HandlerAfter(FALSE, mime, "").kind = "Ok"
                    /\ HandlerAfter(FALSE, mime, "").handler = Head(before)
      ]_vars

\* a second, different handler has been added and the first is still returned
C17_Witness ==
    /\ IsGet /\ ~config.enable_selector
    /\ Has(default_apps, out.mime)
    /\ default_apps[out.mime] = <<"mpv.desktop", "brave.desktop">>
    /\ ~Has(default_apps, Wildcard(out.mime))
    /\ out.res.kind = "Ok"
    /\ out.res.handler = "mpv.desktop"

\* C18: set_handler(mime, h) makes the list of mime the list of h alone,
\* whatever it held, and get_handler(mime) then returns h.
C18_SetReplaces ==
    [][out'.op = "set_handler" =>
          LET mime == out'.mime
          IN /\ Has(default_apps', mime)
             /\ default_apps'[mime] = <<out'.handler>>
             /\ \A selector \in BOOLEAN, answer \in SelectorOutputs :
                    /\ HandlerAfter(selector, mime, answer).kind = "Ok"
                    /\ HandlerAfter(selector, mime, answer).handler
                           = out'.handler
                    /\ HandlerAfter(selector, mime, answer).source = "default"
      ]_vars

\* a handler has been set for a key while the wildcard key lists two
C18_Witness ==
    /\ out.op = "set_handler"
    /\ out.mime = VideoMp4
    /\ default_apps[VideoMp4] = <<"brave.desktop">>
    /\ out.handler = "brave.desktop"
    /\ Has(default_apps, VideoAny)
    /\ default_apps[VideoAny] = <<"mpv.desktop", "brave.desktop">>
    /\ file = Save(added_associations, default_apps)

\* s without its first element equal to x
WithoutFirst(s, x) ==
    IF \E i \in 1..Len(s) : s[i] = x
    THEN LET pos == CHOOSE i \in 1..Len(s) :
                        s[i] = x /\ \A j \in 1..(i - 1) : s[j] # x
         IN [k \in 1..(Len(s) - 1) |-> IF k < pos THEN s[k] ELSE s[k + 1]]
    ELSE s

\* C19: remove_handler(mime, h) takes h out of the list of mime and keeps the
\* other handlers in their order; when that leaves the list empty,
\* get_handler(mime) does not crash and does not answer from default_apps[mime]:
\* it goes on to the later steps and returns NotFound when they have no entry.
C19_RemoveOnlyThat ==
    [][out'.op = "remove_handler" =>
          LET mime == out'.mime
              before == ListOf(default_apps, mime)
          IN /\ ListOf(default_apps', mime)
                    = WithoutFirst(before, out'.handler)
             /\ OtherKeysKept(mime)
             /\ (before # <<>> /\ ListOf(default_apps', mime) = <<>>) =>
                    \A selector \in BOOLEAN, answer \in SelectorOutputs :
                        /\ HandlerAfter(selector, mime, answer).kind # "Panic"
                        /\ HandlerAfter(selector, mime, answer).source
                               # "default"
                        /\ NothingBehind(mime) =>
                               HandlerAfter(selector, mime, answer).kind
                                   = "NotFound"
      ]_vars

\* C20: unset_handler(mime) takes the key mime out of default_apps and leaves
\* the other keys of default_apps and added_associations as they are;
\* get_handler(mime) then does not answer from default_apps[mime] and returns
\* NotFound when no later step has an entry.
C20_UnsetRemovesKey ==
    [][out'.op = "unset_handler" =>
          LET mime == out'.mime
          IN /\ ~Has(default_apps', mime)
             /\ OtherKeysKept(mime)
             /\ added_associations' = added_associations
             /\ \A selector \in BOOLEAN, answer \in SelectorOutputs :
                    /\ HandlerAfter(selector, mime, answer).source # "default"
                    /\ NothingBehind(mime) =>
                           HandlerAfter(selector, mime, answer).kind
                               = "NotFound"
      ]_vars

\* the key is gone, the wildcard key still lists two handlers and the added
\* associations are those of the file that was loaded
C20_Witness ==
    /\ out.op = "unset_handler"
    /\ out.mime = VideoMp4
    /\ ~Has(default_apps, VideoMp4)
    /\ Has(default_apps, VideoAny)
    /\ Len(default_apps[VideoAny]) = 2
    /\ Has(added_associations, VideoMp4)
    /\ file = Save(added_associations, default_apps)

----------------------------------------------------------------------------
(* Properties of the handler lists of the registry *)

\* no handler is in the list twice
NoRepeat(list) ==
    \A i, j \in 1..Len(list) : list[i] = list[j] => i = j

\* C21: no list of default_apps or added_associations holds the same handler
\* twice: add_handler of a handler that is already in the list of its key
\* leaves that list as it is.
C21_NoDuplicateHandlers ==
    /\ \A m \in DOMAIN default_apps : NoRepeat(default_apps[m])
    /\ \A m \in DOMAIN added_associations : NoRepeat(added_associations[m])

----------------------------------------------------------------------------
(* Properties of MimeApps::read and MimeApps::save *)

IsRead == out.op = "read"

\* place of a MIME type in the ascending order of MIME types
Rank(mime) == Position(MimeOrder, mime)

\* the property lines of a text between two successive places of it
SameSection(text, i, j) ==
    \A k \in i..j : text[k].rule = "property"

\* C22: for the registry R that read builds from a file, the text that save
\* writes for R has both section headers and, under each, the MIME keys in
\* ascending order, and reading that text gives R again: the same keys in
\* both namespaces, each with the same handlers in the same order.
C22_RoundTrip ==
    IsRead =>
        LET R == Registry(added_associations, default_apps)
            text == FileText(Save(R.added, R.defaults))
        IN /\ \E i, j \in 1..Len(text) :
                  /\ i < j
                  /\ text[i] = Section("Added Associations")
                  /\ text[j] = Section("Default Applications")
           /\ \A i, j \in 1..Len(text) :
                  i < j /\ SameSection(text, i, j) =>
                      Rank(MimeFromStr(text[i].name))
                          < Rank(MimeFromStr(text[j].name))
           /\ Parse(text).added = R.added
           /\ Parse(text).defaults = R.defaults

\* a file whose keys are not in ascending order and whose lists have a
\* repeated, an empty and an unknown handler has been read
C22_Witness ==
    /\ IsRead
    /\ Len(file) = 3
    /\ file[2].name = "video/mp4"
    /\ file[3].name = "text/plain"
    /\ DOMAIN default_apps = {VideoMp4, TextPlain}
    /\ default_apps[VideoMp4] = <<"mpv.desktop", "brave.desktop">>
    /\ Len(file[3].value) > 2

\* name of the section header that is in force at line i of a text
SectionAt(text, i) ==
    LET heads == {j \in 1..(i - 1) : text[j].rule = "section"}
    IN IF heads = {} THEN ""
       ELSE text[CHOOSE j \in heads : \A k \in heads : k <= j].name

\* the installed handlers that a value names, each once, in the order in
\* which they first appear
Kept(value) ==
    LET names == {n \in {value[j] : j \in 1..Len(value)} :
                     n # ";" /\ IsDesktopHandler(n)}
    IN CHOOSE s \in [1..Cardinality(names) -> names] :
           /\ \A n \in names : \E i \in DOMAIN s : s[i] = n
           /\ \A i, j \in DOMAIN s :
                  i < j => Position(value, s[i]) < Position(value, s[j])

\* the lines of a text that give an entry for a MIME type under a header
Giving(text, header, mime) ==
    {i \in 1..Len(text) :
        /\ text[i].rule = "property"
        /\ SectionAt(text, i) = header
        /\ MimeFromStr(text[i].name) = mime
        /\ Kept(text[i].value) # <<>>}

\* what read must build for a namespace from the lines under its header
Entries(text, header, map) ==
    /\ \A mime \in DOMAIN map : Giving(text, header, mime) # {}
    /\ \A i \in 1..Len(text) :
           \A mime \in {MimeOrder[k] : k \in 1..Len(MimeOrder)} :
               i \in Giving(text, header, mime) => mime \in DOMAIN map
    /\ \A mime \in DOMAIN map :
           \E i \in Giving(text, header, mime) :
               /\ \A j \in Giving(text, header, mime) : j <= i
               /\ map[mime] = Kept(text[i].value)

\* C23: read gives a namespace an entry for a MIME type exactly when a
\* property line under that namespace's header has that MIME type as its
\* key and keeps a handler once empty segments, repeats and handlers that
\* are not installed are dropped, and the entry is what the last such line
\* keeps;
\* lines under another header, with a key that is no MIME type or with
\* nothing kept give no entry in either namespace, and read still succeeds.
C23_EntriesFromLines ==
    IsRead =>
        /\ Entries(out.text, "Added Associations", added_associations)
        /\ Entries(out.text, "Default Applications", default_apps)

\* a file that was read has a line under a foreign header and, under
\* [Default Applications], a line with an empty segment, a repeated handler
\* and a handler that is not installed
C23_Witness ==
    /\ IsRead
    /\ Len(file) = 4
    /\ file[1] = Section("Desktop Entry")
    /\ file[2].rule = "property"
    /\ LineHandlers(file[2].value) # <<>>
    /\ file[3] = Section("Default Applications")
    /\ file[4].rule = "property"
    /\ Len(file[4].value) > 4
    /\ added_associations = EmptyMap
    /\ DOMAIN default_apps = {TextPlain}
    /\ default_apps[TextPlain] = <<"mpv.desktop">>

----------------------------------------------------------------------------
(* Properties of the exit status *)

IsExit == out.op = "exit"

\* C24: the process ends with status 1 whenever the command ended in an
\* error, a cancelled selection included, and with status 0 otherwise.
C24_ExitCode ==
    IsExit => out.code = (IF out.res.kind = "Ok" THEN 0 ELSE 1)

----------------------------------------------------------------------------
(* Properties of override_selector *)

\* the value of a field that the calls supplied last, configured if none did
LastSupplied(calls, field, configured) ==
    LET given == {i \in 1..Len(calls) : calls[i][field] # None}
    IN IF given = {} THEN configured
       ELSE calls[CHOOSE i \in given : \A j \in given : j <= i][field][1]

----------------------------------------------------------------------------
(* Properties of concurrent invocations *)

BothSaved == \A p \in Procs : out.pc[p] = "saved"

\* the text that save writes for the registry of invocation p
TextOf(p) == FileText(Save(added_associations[p], default_apps[p]))

\* C25: when both invocations have saved, the file is the text written for
\* the registry of the invocation that saved last, in every interleaving.
C25_LastWriterWins == BothSaved => file = TextOf(out.last)

----------------------------------------------------------------------------
(* Properties of the registry in memory and in the file *)

IsMutation ==
    out.op \in {"add_handler", "set_handler", "remove_handler",
                "unset_handler"}

\* C26: after every add, set, remove or unset that returned successfully,
\* reading the file gives the registry that is in memory.
C26_FileIsRegistry ==
    IsMutation =>
        Parse(FileText(file)) = Registry(added_associations, default_apps)

\* C29: every key present in default_apps or added_associations maps to a
\* list that is not empty, whatever commands have run.
C29_NoEmptyList ==
    /\ \A m \in DOMAIN default_apps : default_apps[m] # <<>>
    /\ \A m \in DOMAIN added_associations : added_associations[m] # <<>>

----------------------------------------------------------------------------
(* Properties of exec_inner and its children *)

Running == {c \in 1..Len(out.children) : out.children[c].running}

\* C28: the process waits for a child exactly when the entry is terminal and
\* the output is a terminal: then the next command is spawned only after
\* the child has exited, so that at most one child runs.  Otherwise no
\* child is waited for and every child has its stdout and stderr discarded.
C28_WaitsIffTerminal ==
    IF out.entry.terminal /\ config.terminal_output
    THEN /\ \A c \in 1..Len(out.children) : out.children[c].waited
         /\ Cardinality(Running) <= 1
         /\ out.waiting # 0 <=> Running # {}
         /\ Running # {} => Running = {Len(out.children)}
    ELSE /\ out.waiting = 0
         /\ \A c \in 1..Len(out.children) :
                /\ ~out.children[c].waited
                /\ out.children[c].stdout = "null"
                /\ out.children[c].stderr = "null"

\* a terminal entry is run for one argument at a time while the output is
\* no terminal: the second command has been spawned while the child of the
\* first still runs
C28_Witness ==
    /\ out.entry.terminal
    /\ ~config.terminal_output
    /\ Len(out.invocations) = 3
    /\ out.next = 3
    /\ Running = {1, 2}

----------------------------------------------------------------------------
(* Properties of a batch open with a path that is not resolved *)

\* the outcome of resolving path i of the batch
ResolvedKind(i) ==
    GetHandlerFromPath(config.handlers, default_apps, added_associations,
                       system_apps, config.enable_selector, out.paths[i],
                       "").kind

Unresolved == {i \in 1..Len(out.paths) : ResolvedKind(i) # "Ok"}

\* C30: when a path of a batch is not resolved (NotFound,
\* AmbiguousExtension or Cancelled), open_paths returns the error of the
\* first such path and no command is spawned for any path, the paths before
\* that one included.
C30_ResolveBeforeSpawn ==
    IsOpened /\ Unresolved # {} =>
        /\ \E i \in Unresolved :
               /\ \A j \in Unresolved : i <= j
               /\ out.assigned.kind = ResolvedKind(i)
        /\ out.assigned.kind \in {"NotFound", "AmbiguousExtension",
                                  "Cancelled"}
        /\ ~out.run.ok
        /\ out.run.log = <<>>

\* two paths that are resolved come before one for which the selector is
\* closed without a choice
C30_Witness ==
    /\ IsOpened
    /\ Len(out.paths) = 3
    /\ Unresolved = {3}
    /\ out.paths[1] # out.paths[2]
    /\ out.assigned.kind = "Cancelled"
    /\ out.run.log = <<>>

====
